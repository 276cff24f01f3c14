-------------------------------- MODULE Lists --------------------------------
(***************************************************************************)
(* Lists that elements are taken out of, as std::list::erase, remove_if    *)
(* and std::deque::erase do: the others keep their order.                  *)
(***************************************************************************)
EXTENDS Naturals, Sequences

\* The list without the elements of S.
Without(list, S) ==
  LET kept[i \in 0 .. Len(list)] ==
        IF i = 0 THEN <<>>
        ELSE IF list[i] \in S THEN kept[i - 1] ELSE Append(kept[i - 1], list[i])
  IN  kept[Len(list)]
=============================================================================
