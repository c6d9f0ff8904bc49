------------------------------ MODULE MCProtocol ------------------------------
(* Values for the constants of Protocol that a cfg cannot write. *)
EXTENDS Protocol

CONSTANTS red, blue, x

Numerals == <<"0", "1", "2", "3", "4">>

(* With reads of 9 units: a mail of two reads; one whose first read ends     *)
(* with a newline, with and without a line that reads like a command; one    *)
(* whose NUL is left alone, and whose READ fills the buffer of the client.   *)
Letters == {[subject |-> red,  body |-> <<x, NL>>],
            [subject |-> blue, body |-> <<x, x, NL>>],
            [subject |-> blue, body |-> <<x, x, NL, "DEL", NL>>],
            [subject |-> red,  body |-> <<NL>>]}

Words == {Me, red, blue, x, "DEL"} \cup Password \cup {Numerals[i] : i \in 1..5}
=============================================================================
