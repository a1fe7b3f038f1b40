----------------------------- MODULE Strings16 -----------------------------
(***************************************************************************)
(* Texts are model values.  Two of them matter by what is done to them.    *)
(***************************************************************************)
CONSTANTS
    Empty,      \* the empty string
    Broken      \* a string that is not valid UTF-8

\* A string is written to a parcel as UTF-16; what is not valid becomes empty.
Str8ToStr16(s) == IF s = Broken THEN Empty ELSE s
=============================================================================
