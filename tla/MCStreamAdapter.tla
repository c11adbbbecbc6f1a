-------------------------- MODULE MCStreamAdapter --------------------------
(***************************************************************************)
(* Streams of up to four wire chunks with two parallel tool calls.         *)
(***************************************************************************)
EXTENDS StreamAdapter

D(reasoning, text, calls, finish) ==
    [reasoning |-> reasoning, text |-> text, calls |-> calls, finish |-> finish, usage |-> finish]
Args(i) == [index |-> i, args |-> TRUE]
Name(i) == [index |-> i, args |-> FALSE]
Wire ==
    { D(TRUE, FALSE, <<>>, FALSE), D(FALSE, TRUE, <<>>, FALSE), D(TRUE, TRUE, <<>>, FALSE),
      D(FALSE, FALSE, <<Args(0)>>, FALSE), D(FALSE, FALSE, <<Args(1)>>, FALSE),
      D(FALSE, TRUE, <<Args(0), Args(1)>>, FALSE), D(TRUE, FALSE, <<Name(1)>>, FALSE),
      D(FALSE, FALSE, <<>>, TRUE) }
=============================================================================
