------------------------------ MODULE MCBanker ------------------------------
(***************************************************************************)
(* Input files for Banker with three processes and two resources, most of  *)
(* them safe to start with, the last one not.                              *)
(***************************************************************************)
EXTENDS Banker, TLC

File(avail, mx, al) == [available |-> avail, max |-> mx, alloc |-> al]

Nothing == [p \in Process |-> Zero]

SmallFiles ==
    { \* Nothing held: only some of the requests are safe together.
      File(<<2, 2>>, << <<2, 1>>, <<2, 2>>, <<0, 2>> >>, Nothing),
      \* Process 3 can only finish last.
      File(<<1, 0>>, << <<1, 1>>, <<2, 1>>, <<2, 2>> >>, << <<0, 1>>, <<1, 0>>, <<0, 1>> >>),
      \* Process 1 and process 2 wait for each other: unsafe.
      File(<<0, 1>>, << <<2, 0>>, <<2, 1>>, <<1, 1>> >>, << <<1, 0>>, <<1, 0>>, <<1, 1>> >>),
      File(<<0, 0>>, << <<2, 0>>, <<2, 0>>, <<0, 1>> >>, << <<1, 0>>, <<1, 0>>, <<0, 1>> >>) }

InOrder  == {[r \in Resource |-> r]}
AnyOrder == Bijection(Resource, Resource)
=============================================================================
