--------------------------- MODULE MCRegistration ---------------------------
(* A small instance of Registration for TLC: an address typed in two ways, *)
(* and another one.                                                        *)
EXTENDS Registration

CONSTANTS ann, Ann, bob   \* ann and Ann differ in case only

TypedEmails == {ann, Ann, bob}
LowerCase(e) == IF e = Ann THEN ann ELSE e
=============================================================================
