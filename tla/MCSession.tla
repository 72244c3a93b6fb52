----------------------------- MODULE MCSession -----------------------------
(***************************************************************************)
(* The instance of Session that TLC checks: two tabs and the forms that    *)
(* meet each other, typed right and, for the password, wrong.              *)
(***************************************************************************)
EXTENDS Session

CONSTANTS tab1, tab2, n0, n1, p0, p1, r1

MCTabs == {tab1, tab2}
MCNames == {n0, n1}
MCPws == {p0, p1}
MCCodes == {r1}
MCFirstAdmin == [name |-> n0, pw |-> p0, must |-> TRUE, totp |-> FALSE,
                 pending |-> 0, secret |-> 0, codes |-> {}]

F(op, pw) == [op |-> op, pw |-> pw, name |-> n1, new |-> p1]
MCForms == {F("password", p0), F("rename", p1), F("setup", p0), F("enable", p0),
            F("disable", p1), F("restore", p0)}
=============================================================================
