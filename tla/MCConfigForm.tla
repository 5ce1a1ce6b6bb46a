---------------------------- MODULE MCConfigForm ----------------------------
(* The instance of ConfigForm that TLC checks. *)
EXTENDS ConfigForm

\* A name that can be typed is blank, in use, or one that is generated later.
MCTexts == {"", "order", "EventType2"}
MCDefaultNames == <<"order", "payment">>
MCGenerated == <<"EventType1", "EventType2", "EventType3">>
=============================================================================
