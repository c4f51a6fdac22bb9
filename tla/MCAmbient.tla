----------------------------- MODULE MCAmbient -----------------------------
(* An instance of Ambient for TLC: a manager on the default connection and *)
(* one on another, which calls also reach by name.                         *)
EXTENDS Ambient, TLC
CONSTANTS m1, m2, main, other

MCManagers == {m1, m2}
MCConnOf == m1 :> main @@ m2 :> other
Em(m, conn) == [by |-> "em", mgr |-> m, conn |-> conn]
Decorator(conn) == [by |-> "decorator", mgr |-> None, conn |-> conn]
MCForms == {Em(m1, None), Em(m2, None), Em(m1, other), Decorator(None), Decorator(other)}
=============================================================================
