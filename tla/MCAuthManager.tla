---------------------------- MODULE MCAuthManager ----------------------------
(* A small instance of AuthManager for TLC: two overlapping logins.        *)
EXTENDS AuthManager

CONSTANTS l1, l2

TwoLogins == {l1, l2}
==============================================================================
