---------------------------- MODULE MCLineReader ----------------------------
(***************************************************************************)
(* LineReader with a reply, a URC, a URC that contains the prompt, the     *)
(* prompt itself and a line that does not fit the buffer.                  *)
(***************************************************************************)
EXTENDS LineReader

MCTexts == {<<"x", "CR", "LF">>, <<"+", "CR", "LF">>, <<"+", ">", "CR", "LF">>, <<">">>,
            <<"+", "x", "x", "CR", "LF">>}

=============================================================================
