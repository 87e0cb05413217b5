---------------------------- MODULE MCGuestCase ----------------------------
(* Instances of GuestCase: requests one after the other, and requests begun *)
(* over another that is still served, in the pairs of operations that share *)
(* a file.                                                                  *)
EXTENDS GuestCase, TLC

Alone == [findings |-> {},
          ends |-> {"terminated_or_disappeared"},
          products |-> {"ready", "not_ready"},
          overlapping |-> {}]
Overlapped == [findings |-> {}, ends |-> {}, products |-> {"ready"},
               overlapping |-> {<<"collect", "collect">>, <<"execute", "collect">>,
                               <<"collect", "prepare">>}]

ScopeSet == {Alone, Overlapped}
ThreadSymmetry == Permutations(Threads)
=============================================================================
