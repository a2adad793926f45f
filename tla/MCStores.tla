------------------------------ MODULE MCStores ------------------------------
(***************************************************************************)
(* Stores for TLC: a dialled number, and callers with and without a name.  *)
(***************************************************************************)
EXTENDS Stores

SomeRaws ==
    {<<"user">>, <<"user", "@host">>, <<"name", "<", "user", "@host", ">">>,
     <<"name", "|", "name", "<", "user", "@host", ">">>}

\* Filtering is the standard one.
ASSUME WhereIsSelectSeq ==
    \A n \in 0 .. 5 : \A s \in [1 .. n -> 1 .. 3] :
        Where(s, LAMBDA x : x # 2) = SelectSeq(s, LAMBDA x : x # 2)
=============================================================================
