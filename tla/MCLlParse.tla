----------------------------- MODULE MCLlParse -----------------------------
(* Values for model checking LlParse. *)
EXTENDS LlParse

(* A short text, one that begins like a prompt, one that is taken for a     *)
(* prompt, and one too long for a buffer of three bytes.                    *)
TextValues == {<<"a">>, <<"GT", "b">>, <<"GT", "SP", "a">>, <<"b", "b", "b", "b">>}
EchoValues == {<<"A", "T">>}
=============================================================================
