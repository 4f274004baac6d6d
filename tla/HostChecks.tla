----------------------------- MODULE HostChecks -----------------------------
(***************************************************************************)
(* The decisions of host.rs that need no process: comparing store paths,   *)
(* diffing closures, comparing caches, reading nix's dry run.              *)
(*                                                                         *)
(* A store path is its parsed parts (split_name_version): the package      *)
(* name, whether the name ends in one of deploy-rs's activation suffixes,  *)
(* the version and the hash.  A substituter is a url and whether it is     *)
(* written with the slash nix likes to add.                                *)
(***************************************************************************)
EXTENDS Naturals, Sequences, FiniteSets, SequencesExt

CONSTANT None

----------------------------------------------------------------------------
(* Profiles and closures *)

\* Two profile paths of the same package at the same version, an activation
\* wrapper counting as the system it wraps.
SameRelease(local, remote) ==
  /\ local.name = remote.name
  /\ ~remote.wrapper
  /\ local.version = remote.version

\* The path of a profile among the wrapper's references that is named like
\* what the host runs, or the wrapper itself.
ResolveToplevel(wrapper, references, remote) ==
  LET named == {r \in references : r.name = remote.name /\ r.wrapper = remote.wrapper}
  IN  IF named = {} THEN wrapper ELSE CHOOSE r \in named : TRUE

\* Each package of a closure with the set of its versions.
VersionsOf(paths, key) ==
  {q.version : q \in {r \in paths : << r.name, r.wrapper >> = key}}

Names(paths) == {<< r.name, r.wrapper >> : r \in paths}

\* What a deploy would change: packages that come, go or change version, or
\* failing that the number of rebuilt paths; nothing when nothing differs.
VersionDiff(local, remote) ==
  LET changed == {key \in Names(local) \cup Names(remote) :
                    VersionsOf(local, key) # VersionsOf(remote, key)}
      Change(key) ==
        [key |-> key, from |-> VersionsOf(remote, key), to |-> VersionsOf(local, key)]
  IN  IF changed # {} THEN {Change(key) : key \in changed}
      ELSE IF local # remote THEN {[rebuilt |-> << local \ remote, remote \ local >>]}
      ELSE {}

----------------------------------------------------------------------------
(* Substituters *)

Urls(caches) == {c.url : c \in caches}

\* The declared caches the current configuration lacks, in their declared
\* spelling, each once.
AddedEntries(declared, current) ==
  LET New(i) ==
        /\ declared[i].url \notin Urls(current)
        /\ \A j \in 1 .. i - 1 : declared[j].url # declared[i].url
  IN  {declared[i] : i \in {j \in DOMAIN declared : New(j)}}

----------------------------------------------------------------------------
(* The build plan *)

\* `nix build --dry-run` prints headers (built, fetched, other) and paths.
EmptyPlan == [section |-> "none", toBuild |-> << >>, toFetch |-> << >>]

AddPath(list, path) == IF Contains(list, path) THEN list ELSE Append(list, path)

\* Mutant of ReadLine: a header nobody knows leaves the section as it was.
ReadLineSticky(plan, line) ==
  IF line.kind = "header"
  THEN [plan EXCEPT !.section = IF line.header = "other" THEN @ ELSE line.header]
  ELSE [plan EXCEPT
          !.toBuild = IF plan.section = "built" THEN AddPath(@, line.path) ELSE @,
          !.toFetch = IF plan.section = "fetched" THEN AddPath(@, line.path) ELSE @]

ReadLine(plan, line) ==
  IF line.kind = "header" THEN [plan EXCEPT !.section = line.header]
  ELSE [plan EXCEPT
          !.toBuild = IF plan.section = "built" THEN AddPath(@, line.path) ELSE @,
          !.toFetch = IF plan.section = "fetched" THEN AddPath(@, line.path) ELSE @]

ParseDryRun(lines) ==
  LET Read[i \in 0 .. Len(lines)] ==
        IF i = 0 THEN EmptyPlan ELSE ReadLine(Read[i - 1], lines[i])
  IN  Read[Len(lines)]
=============================================================================
