---------------------------- MODULE MCSmsNotify ----------------------------
(* Small instances of SmsNotify for TLC.                                   *)
EXTENDS SmsNotify

\* Two messages whose index fits the two characters that are read.
MCIndices == {1, 23}
=============================================================================
