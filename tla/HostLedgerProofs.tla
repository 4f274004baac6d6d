-------------------------- MODULE HostLedgerProofs --------------------------
(* What apply_outcome, a refused probe and loading do to one host, for any *)
(* revisions, paths and kinds of misses.                                   *)
EXTENDS HostLedger, TLAPS

(* Every outcome of a run leaves the host with a well-formed state. *)
LEMMA ApplyOutcomeType ==
  ASSUME NEW hs \in HostState, NEW o \in Outcome, NEW rev \in Revs
  PROVE  ApplyOutcome(hs, o, rev) \in HostState
<1>1. o.kind \in Settled \cup Unsettled \cup {"held"} \cup Kinds /\ o.toplevels \in OptPath
  BY DEF Outcome
<1>2. CASE o.kind \in Settled
  <2>1. ApplyOutcome(hs, o, rev) = Succeeded(hs, rev, o.toplevels)
    BY <1>2, KindsAssumption DEF ApplyOutcome, Settled, Unsettled
  <2> QED BY <2>1, <1>1 DEF Succeeded, HostState, OptRev
<1>3. CASE o.kind = "held"
  <2>1. ApplyOutcome(hs, o, rev) = HeldAt(hs, rev)
    BY <1>3, KindsAssumption DEF ApplyOutcome, Settled, Unsettled
  <2> QED BY <2>1 DEF HeldAt, HostState, OptRev
<1>4. CASE o.kind \in Unsettled
  <2>1. ApplyOutcome(hs, o, rev) = ParkedAt(hs, rev)
    BY <1>4, KindsAssumption DEF ApplyOutcome, Settled, Unsettled
  <2> QED BY <2>1 DEF ParkedAt, HostState, OptRev
<1>5. CASE o.kind \in Kinds
  <2>1. ApplyOutcome(hs, o, rev) = PendingAt(hs, rev, o.kind)
    BY <1>5, KindsAssumption DEF ApplyOutcome, Settled, Unsettled
  <2>2. [rev |-> rev, kind |-> o.kind] \in OfflineStamp
    BY <1>5 DEF OfflineStamp
  <2> QED BY <2>1, <2>2 DEF PendingAt, HostState, OptRev
<1> QED BY <1>1, <1>2, <1>3, <1>4, <1>5

(* So does a refused probe. *)
LEMMA RefusedType ==
  ASSUME NEW hs \in HostState, NEW kind \in Kinds
  PROVE  Refused(hs, kind) \in HostState
<1>1. CASE hs.offline = None
  BY <1>1 DEF Refused, HostState
<1>2. CASE hs.offline # None
  <2>1. hs.offline \in OfflineStamp
    BY <1>2 DEF HostState
  <2>2. [hs.offline EXCEPT !.kind = kind] \in OfflineStamp
    BY <2>1 DEF OfflineStamp
  <2> QED BY <1>2, <2>2 DEF Refused, HostState
<1> QED BY <1>1, <1>2

LEMMA DropSupersededParksType ==
  ASSUME NEW hs \in HostState
  PROVE  DropSupersededParks(hs) \in HostState
BY DEF DropSupersededParks, HostState, OptRev

LEMMA PlanEntryType ==
  ASSUME NEW hs \in HostState
  PROVE  PlanEntry(hs) \in PlanHost
BY DEF PlanEntry, PlanHost, HostState, OptPath

(* Folding an outcome in at a revision the host does not run yet keeps its *)
(* stamps consistent: the step every recorded run takes.                   *)
LEMMA ApplyOutcomeConsistent ==
  ASSUME NEW hs \in HostState, NEW o \in Outcome, NEW rev \in Revs,
         Consistent(hs), hs.deployed # rev
  PROVE  Consistent(ApplyOutcome(hs, o, rev))
<1>1. o.kind \in Settled \cup Unsettled \cup {"held"} \cup Kinds
  BY DEF Outcome
<1>2. CASE o.kind \in Settled
  <2>1. ApplyOutcome(hs, o, rev) = Succeeded(hs, rev, o.toplevels)
    BY <1>2, KindsAssumption DEF ApplyOutcome, Settled, Unsettled
  <2> QED BY <2>1 DEF Succeeded, HostState, Consistent
<1>3. CASE o.kind = "held"
  <2>1. ApplyOutcome(hs, o, rev) = HeldAt(hs, rev)
    BY <1>3, KindsAssumption DEF ApplyOutcome, Settled, Unsettled
  <2> QED BY <2>1 DEF HeldAt, HostState, Consistent
<1>4. CASE o.kind \in Unsettled
  <2>1. ApplyOutcome(hs, o, rev) = ParkedAt(hs, rev)
    BY <1>4, KindsAssumption DEF ApplyOutcome, Settled, Unsettled
  <2> QED BY <2>1 DEF ParkedAt, HostState, Consistent
<1>5. CASE o.kind \in Kinds
  <2>1. ApplyOutcome(hs, o, rev) = PendingAt(hs, rev, o.kind)
    BY <1>5, KindsAssumption DEF ApplyOutcome, Settled, Unsettled
  <2> QED BY <2>1 DEF PendingAt, HostState, Consistent
<1> QED BY <1>1, <1>2, <1>3, <1>4, <1>5

(* Only a round that could not get in sets the pending marker. *)
LEMMA ApplyOutcomeMarker ==
  ASSUME NEW hs \in HostState, NEW o \in Outcome, NEW rev \in Revs, o.kind \notin Kinds
  PROVE  ApplyOutcome(hs, o, rev).offline \in {None, hs.offline}
<1>1. o.kind \in Settled \cup Unsettled \cup {"held"}
  BY DEF Outcome
<1>2. CASE o.kind \in Settled
  <2>1. ApplyOutcome(hs, o, rev) = Succeeded(hs, rev, o.toplevels)
    BY <1>2, KindsAssumption DEF ApplyOutcome, Settled, Unsettled
  <2> QED BY <2>1 DEF Succeeded, HostState
<1>3. CASE o.kind = "held"
  <2>1. ApplyOutcome(hs, o, rev) = HeldAt(hs, rev)
    BY <1>3, KindsAssumption DEF ApplyOutcome, Settled, Unsettled
  <2> QED BY <2>1 DEF HeldAt, HostState
<1>4. CASE o.kind \in Unsettled
  <2>1. ApplyOutcome(hs, o, rev) = ParkedAt(hs, rev)
    BY <1>4, KindsAssumption DEF ApplyOutcome, Settled, Unsettled
  <2> QED BY <2>1 DEF ParkedAt, HostState
<1> QED BY <1>1, <1>2, <1>3, <1>4

LEMMA RefusedConsistent ==
  ASSUME NEW hs \in HostState, NEW kind \in Kinds, Consistent(hs)
  PROVE  Consistent(Refused(hs, kind))
<1>1. CASE hs.offline = None
  BY <1>1 DEF Refused, HostState, Consistent
<1>2. CASE hs.offline # None
  <2>1. hs.offline \in OfflineStamp
    BY <1>2 DEF HostState
  <2>2. [hs.offline EXCEPT !.kind = kind].rev = hs.offline.rev
    BY <2>1 DEF OfflineStamp
  <2> QED BY <1>2, <2>2 DEF Refused, HostState, Consistent
<1> QED BY <1>1, <1>2

(* Loading changes nothing this version of the agent wrote: the migration  *)
(* only touches files older than the rule it enforces.                     *)
LEMMA LoadKeepsConsistent ==
  ASSUME NEW hs \in HostState, Consistent(hs)
  PROVE  DropSupersededParks(hs) = hs
<1>1. CASE hs.offline = None
  BY <1>1 DEF DropSupersededParks
<1>2. CASE hs.offline # None
  <2>1. hs.failed = None
    BY <1>2 DEF Consistent
  <2>2. [hs EXCEPT !.failed = None] = hs
    BY <2>1 DEF HostState
  <2> QED BY <1>2, <2>2 DEF DropSupersededParks
<1> QED BY <1>1, <1>2
=============================================================================
