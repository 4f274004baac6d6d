--------------------------- MODULE MCProbeStatus ---------------------------
(* Finite instances of ProbeStatus: a flake that is edited twice, first    *)
(* within a release, with a new cache that it spells twice and differently  *)
(* from the host; then with a version bump, that cache alone and its key.   *)
EXTENDS ProbeStatus

CONSTANTS system, other, openssl, ownKey

SomeRelease == (0 :> 1) @@ (1 :> 1) @@ (2 :> 2)

SomePackages ==
  LET Openssl(version) == [name |-> openssl, wrapper |-> FALSE, version |-> version, hash |-> 0]
  IN  (0 :> {Openssl(1)}) @@ (1 :> {Openssl(1)}) @@ (2 :> {Openssl(2)})

Cache(url, slash) == [url |-> url, slash |-> slash]

SomeCaches ==
  (0 :> << Cache("nixos", TRUE) >>) @@
  (1 :> << Cache("nixos", FALSE), Cache("own", FALSE), Cache("own", TRUE) >>) @@
  (2 :> << Cache("own", TRUE) >>)

SomeLocalCaches == {Cache("nixos", TRUE), Cache("own", TRUE)}

SomeKeys == (0 :> {}) @@ (1 :> {}) @@ (2 :> {ownKey})

SomeForeign == [name |-> other, wrapper |-> FALSE, version |-> 9, hash |-> 9]
=============================================================================
