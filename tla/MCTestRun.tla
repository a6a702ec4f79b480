----------------------------- MODULE MCTestRun -----------------------------
(* Runs for TestRun: one device with every kind of file, and two devices     *)
(* with short files dealt out to them, whole or one shard of two.            *)
EXTENDS TestRun

Plain     == [picks |-> 1, rows |-> 0]
TwoTags   == [picks |-> 2, rows |-> 0]
OtherTag  == [picks |-> 0, rows |-> 0]
DataDriven == [picks |-> 1, rows |-> 2]
LostData  == [picks |-> 1, rows |-> NoData]

MCContent ==
  [mixed |-> [ok |-> TRUE, all |-> TRUE, tests |-> <<Plain, OtherTag, DataDriven>>, comps |-> 1],
   lost  |-> [ok |-> TRUE, all |-> TRUE, tests |-> <<Plain, LostData>>, comps |-> 0],
   bad   |-> [ok |-> FALSE, all |-> FALSE, tests |-> <<>>, comps |-> 0],
   one   |-> [ok |-> TRUE, all |-> FALSE, tests |-> <<Plain>>, comps |-> 0],
   two   |-> [ok |-> TRUE, all |-> TRUE, tests |-> <<Plain>>, comps |-> 0],
   both  |-> [ok |-> TRUE, all |-> FALSE, tests |-> <<TwoTags>>, comps |-> 0],
   none  |-> [ok |-> TRUE, all |-> TRUE, tests |-> <<OtherTag>>, comps |-> 1]]

MCBucket == [mixed |-> 3, lost |-> 8, bad |-> 5, one |-> 2, two |-> 7, both |-> 6, none |-> 4]

Alone(files)  == [parallel |-> FALSE, devices |-> 1, files |-> files, shard |-> 0, of |-> 1]
Spread(n, files, s, k) == [parallel |-> TRUE, devices |-> n, files |-> files, shard |-> s, of |-> k]

AllPlans ==
  {Alone(<<"mixed", "one">>), Alone(<<"one", "lost">>), Alone(<<"two", "bad", "two">>),
   Spread(2, <<"one", "none">>, 0, 1), Spread(2, <<"bad", "two", "bad">>, 1, 2), Spread(1, <<"two", "lost">>, 0, 1)}

(* --parallel --tag with two tags, of which a test has both.                 *)
TwoTagged == {Spread(1, <<"both", "one">>, 0, 1)}

(* Two devices without a shard, for the exit status.                        *)
TwoDevices == {Spread(2, <<"one", "none">>, 0, 1)}

(* One device, without --parallel.                                           *)
LostRows == {Alone(<<"one", "lost">>)}
=============================================================================
