------------------------- MODULE MCCompositeRunner -------------------------
(* Small composite tests for TLC: two devices, bodies that put steps       *)
(* before, between and after sync points.                                   *)
EXTENDS CompositeRunner

CONSTANTS A, B, X   \* aliases; X is never configured

Do(d)   == [kind |-> "device", of |-> d]
Sync(l) == [kind |-> "sync", of |-> l]
T(ds, b) == [devices |-> ds, body |-> b]

TwoDeviceTests ==
  { T({A, B}, <<Do(A), Sync("s"), Do(B), Sync("t"), Do(A)>>),
    T({}, <<Sync("s"), Do(A), Do(B), Sync("t")>>),
    T({A}, <<Sync("s"), Sync("t"), Do(B), Do(B)>>),
    T({A, X}, <<Do(A), Do(X), Sync("s")>>) }

UndeclaredAliasTests == { T({}, <<Do(A), Do(X), Sync("s"), Do(B), Do(X)>>) }

RepeatedLabelTests == { T({A, B}, <<Sync("s"), Do(A), Sync("s"), Do(B)>>) }
============================================================================
