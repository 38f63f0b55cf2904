----------------------------- MODULE MCMessaging -----------------------------
(* TLC instances of Messaging. *)
EXTENDS Messaging, TLC

\* A flow with a node of every kind: the menu leads to a delay, a question or the
\* assistant, the question to the delay again.
Graph == {"hello", "menu", "wait", "http", "if", "ask", "ai", "tag", "stop"}
Kinds == [n \in Graph |-> CASE n = "hello" -> "message" [] n = "wait" -> "delay"
                            [] n = "ask" -> "question" [] n = "if" -> "condition" [] OTHER -> n]
Edges == ("hello" :> "menu") @@ ("wait" :> "http") @@ ("http" :> "if") @@ ("ask" :> "wait")
         @@ ("ai" :> "tag") @@ [n \in Graph |-> "none"]
Choices == ("menu" :> {"wait", "ask", "ai"}) @@ ("if" :> {"stop", "tag"}) @@ [n \in Graph |-> {}]

Load(c, d, r) == [commands |-> c, deletions |-> d, reports |-> r]

\* Two commands of the customer; one and a contact that is deleted; a message with all
\* the reports Meta makes of it.
Loads == {Load(2, 0, 0), Load(1, 1, 0), Load(0, 0, 3)}
Deletion == {Load(1, 1, 0)}
=============================================================================
