------------------------------- MODULE Chatbot -------------------------------
(***************************************************************************)
(* One published chatbot and one customer.  Every message of the customer  *)
(* is a webhook request of its own that reads the conversation             *)
(* (chat_sessions), walks the flow with one update per node and answers; a *)
(* delay node leaves a token in the session and a BullMQ job that goes on  *)
(* later.  Nothing locks the conversation.  Saving the flow meanwhile,     *)
(* other bots of the number and the text of messages are left out.         *)
(***************************************************************************)
EXTENDS Naturals, Sequences

CONSTANTS
  FlowNode, Kind, Following, Options,  \* the saved graph: nodes, what each is, the node
                                       \* behind it, and those behind a menu's options or
                                       \* a condition's outcomes
  StartNode, NoNode,
  Inbound,        \* messages of the customer
  MaxChats, MaxPauses, MaxJobAttempts, MaxChatFaults

Token == 1..MaxPauses  \* chatbot_delay_token; 0 when there is none
Chat == 1..MaxChats

ASSUME ChatbotAssumption ==
  /\ NoNode \notin FlowNode /\ StartNode \in FlowNode
  /\ Kind \in [FlowNode -> {"message", "tag", "http", "condition", "delay", "menu",
                         "question", "ai", "stop"}]
  /\ Following \in [FlowNode -> FlowNode \cup {NoNode}]
  /\ Options \in [FlowNode -> SUBSET FlowNode]
  /\ Inbound \cap Token = {}
  /\ {MaxChats, MaxPauses, MaxJobAttempts, MaxChatFaults} \subseteq Nat

VARIABLES
  defaultFlow, \* no keywords: any text starts the flow
  chat,        \* chat_sessions: active, current_node_id, the token in variables
  byUpdate,    \* sessions by updated_at, which only some updates touch
  actor,       \* what each message handler and each delay job does
  pauses,      \* tokens issued
  pauseOf,     \* data of the delay job of each token
  attemptsLeft,\* of each delay job
  resumed,     \* times a job went on from its delay
  chatFaults

chatVars == <<defaultFlow, chat, byUpdate, actor, pauses, pauseOf, attemptsLeft, resumed, chatFaults>>

Actor == Inbound \cup Token
NoChat == 0

ChatbotTypeOK ==
  /\ defaultFlow \in BOOLEAN
  /\ chat \in [Chat -> [open : BOOLEAN, node : FlowNode \cup {NoNode}, token : 0..MaxPauses]]
  /\ byUpdate \in Seq(Chat)
  /\ actor \in [Actor -> [at : {"absent", "restart", "find", "clear", "create", "choose",
                                "advance", "walk", "queue", "answer", "silence", "queued",
                                "resume", "done"},
                          chat : Chat \cup {NoChat}, node : FlowNode \cup {NoNode},
                          token : 0..MaxPauses]]
  /\ pauses \in 0..MaxPauses
  /\ pauseOf \in [Token -> [chat : Chat \cup {NoChat}, node : FlowNode \cup {NoNode}]]
  /\ attemptsLeft \in [Token -> 0..MaxJobAttempts]
  /\ resumed \in [Token -> Nat] /\ chatFaults \in 0..MaxChatFaults

ChatbotInit ==
  /\ defaultFlow \in BOOLEAN
  /\ chat = [c \in Chat |-> [open |-> FALSE, node |-> NoNode, token |-> 0]]
  /\ byUpdate = <<>>
  /\ actor = [a \in Actor |-> [at |-> "absent", chat |-> NoChat, node |-> NoNode, token |-> 0]]
  /\ pauses = 0
  /\ pauseOf = [p \in Token |-> [chat |-> NoChat, node |-> NoNode]]
  /\ attemptsLeft = [p \in Token |-> MaxJobAttempts]
  /\ resumed = [p \in Token |-> 0]
  /\ chatFaults = 0

Stands(a, place) == actor[a].at = place
Goes(a, place) == actor' = [actor EXCEPT ![a].at = place]
Walks(a, node) == actor' = [actor EXCEPT ![a].at = "walk", ![a].node = node]
\* The conversation the actor loaded: node and variables are what it read then.
Held(a) == actor[a].chat

\* The most recent active session.
LatestChat ==
  LET open == {n \in DOMAIN byUpdate : chat[byUpdate[n]].open}
  IN  IF open = {} THEN NoChat ELSE byUpdate[CHOOSE n \in open : \A m \in open : m <= n]

\* The session goes to the end, those behind it move up.
Touch(c) ==
  byUpdate' = [n \in DOMAIN byUpdate |->
                 IF n = Len(byUpdate) THEN c
                 ELSE IF \E m \in 1..n : byUpdate[m] = c THEN byUpdate[n + 1] ELSE byUpdate[n]]

MoveChat(c, node) == chat' = [chat EXCEPT ![c].node = node]
\* An update of the variables writes all of them, as the caller last saw them.
MoveWithVariables(c, node, token) ==
  chat' = [chat EXCEPT ![c].node = node, ![c].token = token]
EndChat(c) == chat' = [chat EXCEPT ![c].open = FALSE, ![c].node = NoNode]
EndEveryChat ==
  chat' = [c \in Chat |-> IF chat[c].open THEN [chat[c] EXCEPT !.open = FALSE, !.node = NoNode]
                          ELSE chat[c]]
-----------------------------------------------------------------------------
(***************************************************************************)
(* A message arrives: a keyword that is no answer, other text, the title   *)
(* of an option or a tap on an option of this or an earlier menu.          *)
(***************************************************************************)
Menu == {m \in FlowNode : Kind[m] = "menu"}
Choice == UNION {{[of |-> m, to |-> n] : n \in Options[m]} : m \in Menu}

Start(i, place, c, node) ==
  actor' = [actor EXCEPT ![i] = [at |-> place, chat |-> c, node |-> node,
                                 token |-> IF c = NoChat THEN 0 ELSE chat[c].token]]

\* menuFlow, with the answer resolved (resolveInteractiveEdge) against the snapshot.
Answer(i, c, target) ==
  LET node == chat[c].node IN
    IF chat[c].token # 0 THEN Start(i, "done", NoChat, NoNode)
    ELSE CASE Kind[node] = "ai" -> Start(i, "walk", c, node)
           [] Kind[node] # "ai" /\ target # NoNode -> Start(i, "choose", c, target)
           [] Kind[node] = "question" /\ target = NoNode -> Start(i, "advance", c, Following[node])
           [] Kind[node] = "menu" /\ target = NoNode -> Start(i, "answer", c, node)
           [] OTHER -> Start(i, "done", NoChat, NoNode)

ReceiveText(i, keyword) ==
  /\ Stands(i, "absent")
  /\ keyword => ~defaultFlow
  /\ IF keyword \/ (defaultFlow /\ LatestChat = NoChat) THEN Start(i, "restart", NoChat, NoNode)
     ELSE LatestChat # NoChat /\ Answer(i, LatestChat, NoNode)
  /\ UNCHANGED <<defaultFlow, chat, byUpdate, pauses, pauseOf, attemptsLeft, resumed, chatFaults>>

\* A tap is recognised from anywhere in the flow, a title only where it is offered.
ReceiveChoice(i, choice, tapped) ==
  /\ Stands(i, "absent") /\ LatestChat # NoChat
  /\ tapped \/ chat[LatestChat].node = choice.of
  /\ Answer(i, LatestChat, choice.to)
  /\ UNCHANGED <<defaultFlow, chat, byUpdate, pauses, pauseOf, attemptsLeft, resumed, chatFaults>>

\* The conversation moves to the chosen node, with the variables of the snapshot.
Choose(i) ==
  /\ Stands(i, "choose")
  /\ MoveWithVariables(Held(i), actor[i].node, actor[i].token)
  /\ Touch(Held(i))
  /\ Walks(i, actor[i].node)
  /\ UNCHANGED <<defaultFlow, pauses, pauseOf, attemptsLeft, resumed, chatFaults>>

\* Or behind the answered question; without a node there the conversation ends.
Advance(i) ==
  /\ Stands(i, "advance")
  /\ IF actor[i].node = NoNode
       THEN chat' = [chat EXCEPT ![Held(i)].open = FALSE] /\ Goes(i, "done")
       ELSE MoveWithVariables(Held(i), actor[i].node, actor[i].token) /\ Walks(i, actor[i].node)
  /\ UNCHANGED <<defaultFlow, byUpdate, pauses, pauseOf, attemptsLeft, resumed, chatFaults>>

\* flowRouter, triggerFlow: end what is active, look again, end again, create.
RestartFlow(i) ==
  /\ Stands(i, "restart")
  /\ EndEveryChat /\ Goes(i, "find")
  /\ UNCHANGED <<defaultFlow, byUpdate, pauses, pauseOf, attemptsLeft, resumed, chatFaults>>

FindChat(i) ==
  /\ Stands(i, "find")
  /\ IF LatestChat = NoChat THEN Goes(i, "clear") ELSE Start(i, "walk", LatestChat, StartNode)
  /\ UNCHANGED <<defaultFlow, chat, byUpdate, pauses, pauseOf, attemptsLeft, resumed, chatFaults>>

ClearChats(i) ==
  /\ Stands(i, "clear")
  /\ EndEveryChat /\ Goes(i, "create")
  /\ UNCHANGED <<defaultFlow, byUpdate, pauses, pauseOf, attemptsLeft, resumed, chatFaults>>

CreateChat(i) ==
  /\ Stands(i, "create") /\ Len(byUpdate) < MaxChats
  /\ LET c == Len(byUpdate) + 1 IN
       /\ chat' = [chat EXCEPT ![c] = [open |-> TRUE, node |-> StartNode, token |-> 0]]
       /\ byUpdate' = Append(byUpdate, c)
       /\ actor' = [actor EXCEPT ![i] =
                      [at |-> "walk", chat |-> c, node |-> StartNode, token |-> 0]]
  /\ UNCHANGED <<defaultFlow, pauses, pauseOf, attemptsLeft, resumed, chatFaults>>
-----------------------------------------------------------------------------
(***************************************************************************)
(* executeNode: handlers and delay jobs walk alike.                        *)
(***************************************************************************)
Here(a, kind) == Stands(a, "walk") /\ Kind[actor[a].node] = kind
Behind(a) == Following[actor[a].node]

\* No update without a node behind: a message ends the conversation and is sent, a tag
\* or an HTTP request ends it with nothing to send.
WalkOn(a) ==
  /\ Stands(a, "walk") /\ Kind[actor[a].node] \in {"message", "tag", "http"}
  /\ IF Behind(a) = NoNode
       THEN EndChat(Held(a)) /\ Goes(a, IF Here(a, "message") THEN "answer" ELSE "silence")
       ELSE /\ IF Here(a, "http") THEN MoveWithVariables(Held(a), Behind(a), actor[a].token)
                                  ELSE MoveChat(Held(a), Behind(a))
            /\ Walks(a, Behind(a))
  /\ UNCHANGED <<defaultFlow, byUpdate, pauses, pauseOf, attemptsLeft, resumed, chatFaults>>

\* The request of an HTTP node fails: the customer is told so.
RequestFails(a) ==
  /\ Here(a, "http")
  /\ chat' = [chat EXCEPT ![Held(a)].token = actor[a].token]
  /\ Goes(a, "answer")
  /\ UNCHANGED <<defaultFlow, byUpdate, pauses, pauseOf, attemptsLeft, resumed, chatFaults>>

\* An outcome without a connection leaves the conversation where it is.
Decide(a) ==
  /\ Here(a, "condition")
  /\ \/ Goes(a, "silence") /\ UNCHANGED chat
     \/ \E n \in Options[actor[a].node] :
          MoveWithVariables(Held(a), n, actor[a].token) /\ Walks(a, n)
  /\ UNCHANGED <<defaultFlow, byUpdate, pauses, pauseOf, attemptsLeft, resumed, chatFaults>>

\* Menus and questions wait; a stop node ends the conversation.
WaitForAnswer(a) ==
  /\ Stands(a, "walk") /\ Kind[actor[a].node] \in {"menu", "question", "stop"}
  /\ IF Here(a, "stop") THEN EndChat(Held(a)) ELSE UNCHANGED chat
  /\ Goes(a, "answer")
  /\ UNCHANGED <<defaultFlow, byUpdate, pauses, pauseOf, attemptsLeft, resumed, chatFaults>>

\* One turn with the assistant, or a stop word or timeout that leads on.
Converse(a) ==
  /\ Here(a, "ai")
  /\ \/ /\ MoveWithVariables(Held(a), actor[a].node, actor[a].token)
        /\ Touch(Held(a)) /\ Goes(a, "answer")
     \/ /\ Behind(a) # NoNode
        /\ MoveWithVariables(Held(a), Behind(a), actor[a].token)
        /\ Touch(Held(a)) /\ Walks(a, Behind(a))
     \/ /\ Behind(a) = NoNode
        /\ EndChat(Held(a)) /\ Touch(Held(a)) /\ Goes(a, "done")
  /\ UNCHANGED <<defaultFlow, pauses, pauseOf, attemptsLeft, resumed, chatFaults>>

PauseChat(a) ==
  /\ Here(a, "delay") /\ pauses < MaxPauses
  /\ pauses' = pauses + 1
  /\ MoveWithVariables(Held(a), actor[a].node, pauses')
  /\ actor' = [actor EXCEPT ![a].at = "queue", ![a].token = pauses']
  /\ UNCHANGED <<defaultFlow, byUpdate, pauseOf, attemptsLeft, resumed, chatFaults>>

QueueDelay(a) ==
  /\ Stands(a, "queue")
  /\ LET p == actor[a].token IN
       /\ pauseOf' = [pauseOf EXCEPT ![p] = [chat |-> Held(a), node |-> actor[a].node]]
       /\ actor' = [actor EXCEPT ![a].at = "done", ![p].at = "queued"]
  /\ UNCHANGED <<defaultFlow, chat, byUpdate, pauses, attemptsLeft, resumed, chatFaults>>

SendAnswer(a) ==
  /\ Stands(a, "answer")
  /\ Goes(a, "done")
  /\ UNCHANGED <<defaultFlow, chat, byUpdate, pauses, pauseOf, attemptsLeft, resumed, chatFaults>>

\* A message handler without a response ends the latest conversation; a job does not.
StaySilent(a) ==
  /\ Stands(a, "silence")
  /\ IF a \in Inbound /\ LatestChat # NoChat
       THEN EndChat(LatestChat) /\ Touch(LatestChat) ELSE UNCHANGED <<chat, byUpdate>>
  /\ Goes(a, "done")
  /\ UNCHANGED <<defaultFlow, pauses, pauseOf, attemptsLeft, resumed, chatFaults>>
-----------------------------------------------------------------------------
(***************************************************************************)
(* The delay job.                                                          *)
(***************************************************************************)
StillPaused(p) ==
  LET c == pauseOf[p].chat
  IN  chat[c].open /\ chat[c].node = pauseOf[p].node /\ chat[c].token = p

CheckPause(p) ==
  /\ Stands(p, "queued")
  /\ IF StillPaused(p)
       THEN actor' = [actor EXCEPT ![p] = [at |-> "resume", chat |-> pauseOf[p].chat,
                                           node |-> Following[pauseOf[p].node], token |-> p]]
       ELSE Goes(p, "done")
  /\ UNCHANGED <<defaultFlow, chat, byUpdate, pauses, pauseOf, attemptsLeft, resumed, chatFaults>>

\* Mutant: the continued conversation keeps the token of its pause.
TokenKept(p) == p
\* delete variables.chatbot_delay_token
TokenLeft(p) == 0

\* The graph was loaded in between.
ResumeChat(p) ==
  /\ Stands(p, "resume")
  /\ IF actor[p].node = NoNode
       THEN EndChat(Held(p)) /\ Goes(p, "done") /\ UNCHANGED resumed
       ELSE /\ MoveWithVariables(Held(p), actor[p].node, TokenLeft(p))
            /\ actor' = [actor EXCEPT ![p].at = "walk", ![p].token = TokenLeft(p)]
            /\ resumed' = [resumed EXCEPT ![p] = @ + 1]
  /\ UNCHANGED <<defaultFlow, byUpdate, pauses, pauseOf, attemptsLeft, chatFaults>>

\* What is thrown (below an HTTP or tag node it is caught there, and the walk ends just
\* the same), or a process that dies: a message is not handled again (its wamid is
\* saved), a job is, while it has attempts left.
BreakActor(a) ==
  /\ actor[a].at \notin {"absent", "queued", "done"}
  /\ chatFaults < MaxChatFaults /\ chatFaults' = chatFaults + 1
  /\ IF a \in Token /\ attemptsLeft[a] > 1
       THEN Goes(a, "queued") /\ attemptsLeft' = [attemptsLeft EXCEPT ![a] = @ - 1]
       ELSE Goes(a, "done") /\ UNCHANGED attemptsLeft
  \* queue.add() failed: the conversation is ended first, unless the process died.
  /\ (UNCHANGED chat \/ (Stands(a, "queue") /\ EndChat(Held(a))))
  /\ UNCHANGED <<defaultFlow, byUpdate, pauses, pauseOf, resumed>>

ChatbotNext ==
  \/ \E i \in Inbound :
       \/ \E keyword \in BOOLEAN : ReceiveText(i, keyword)
       \/ \E choice \in Choice, tapped \in BOOLEAN : ReceiveChoice(i, choice, tapped)
       \/ Choose(i) \/ Advance(i) \/ RestartFlow(i) \/ FindChat(i) \/ ClearChats(i) \/ CreateChat(i)
  \/ \E a \in Actor :
       \/ WalkOn(a) \/ RequestFails(a) \/ Decide(a) \/ WaitForAnswer(a) \/ Converse(a)
       \/ PauseChat(a) \/ QueueDelay(a) \/ SendAnswer(a) \/ StaySilent(a) \/ BreakActor(a)
  \/ \E p \in Token : CheckPause(p) \/ ResumeChat(p)

ChatbotSpec == ChatbotInit /\ [][ChatbotNext]_chatVars
-----------------------------------------------------------------------------
(***************************************************************************)
(* Properties.                                                             *)
(***************************************************************************)
\* Before it waits for the customer the flow only sends and tags: it does not write
\* variables.  A message that starts the flow over may find the conversation of another
\* that did, with the token of its pause, and an HTTP node, a condition or the assistant
\* would write this token back after the pause is over.
Opens(opening) ==
  /\ StartNode \in opening
  /\ \A n \in opening :
       /\ Kind[n] \notin {"http", "condition", "ai"}
       /\ Kind[n] \in {"message", "tag"} => Following[n] \in opening \cup {NoNode}

PlainOpening == \E opening \in SUBSET FlowNode : Opens(opening)

\* In a flow with such an opening, however the job of a delay is retried and whatever
\* messages arrive meanwhile, the flow goes on from it once (chatbotDelay.processor.ts).
ResumedOnce == PlainOpening => \A p \in Token : resumed[p] <= 1
=============================================================================
