------------------------------- MODULE Copilot -------------------------------
(***************************************************************************)
(* The governance assistant: a message finds its conversation, recalls the *)
(* history from Redis or the database, is classified, handled, perhaps     *)
(* with the answer of a language model, and saved with its reply           *)
(* (services/copilot_service.py, routes/copilot.py and the conversation    *)
(* cache of services/redis_service.py).                                    *)
(*                                                                         *)
(* A chat is one transaction, committed when it has its response; the      *)
(* cache is written before.  A message and its reply are one exchange,     *)
(* named after the chat (their two rows carry the same created_at, the     *)
(* beginning of the transaction, so that no query can tell their order).   *)
(***************************************************************************)
EXTENDS Integers, Sequences, FiniteSets

CONSTANTS
  Chats,         \* POST /v1/copilot/chat
  HistoryLimit,  \* how many exchanges a history may have (20 messages are 10)
  Missing        \* no history in the cache, or no conversation

Existing == "old"     \* the conversation there is

ASSUME CopilotAssumption ==
  /\ IsFiniteSet(Chats) /\ Existing \notin Chats /\ Missing \notin Chats
  /\ HistoryLimit \in Nat \ {0}

(* A chat without a conversation_id, or whose conversation is gone, makes  *)
(* one of its own.                                                         *)
Conversations == Chats \cup {Existing}

VARIABLES
  talk,          \* the committed conversations and their exchanges
  typing,        \* typing[k]: the chat whose transaction has written conversation k
  cache,         \* copilot:hist:<conversation>
  chat,          \* the chats under way
  made,          \* the committed resources: [chat, valid]
  started        \* the chats in the order in which their transactions began

copilotVars == <<talk, typing, cache, chat, made, started>>

Kinds == {"policy", "agent", "webhook"}

(* _classify_intent: the first of these tests that the words meet decides. *)
(* has: what occurs in the message: "sample", "list", "explain", "define"  *)
(* (what is, how does), "create", "register", "govern" (block, allow and   *)
(* the like), "link" (http) and the names of the resources.                *)
Tests ==
  << <<{"sample"}, "sample">>,
     <<{"list", "policy"}, "list_policies">>, <<{"list", "agent"}, "list_agents">>,
     <<{"list", "webhook"}, "list_webhooks">>,
     <<{"explain", "policy"}, "explain_policy">>, <<{"explain"}, "explain">>,
     <<{"define"}, "explain">>,
     <<{"create", "webhook"}, "webhook">>, <<{"create", "agent"}, "agent">>,
     <<{"create"}, "policy">>,
     <<{"register", "webhook"}, "webhook">>, <<{"register"}, "agent">>,
     <<{"webhook", "link"}, "webhook">>,
     <<{"govern"}, "policy">>, <<{"policy"}, "policy">>,
     <<{}, "general">> >>

Intent(has) ==
  LET met == {i \in DOMAIN Tests : Tests[i][1] \subseteq has}
  IN  Tests[CHOOSE i \in met : \A j \in met : i <= j][2]

Words == {"sample", "list", "explain", "define", "create", "register", "govern", "link"} \cup Kinds

(* What a chat asks for: words for the assistant, or the confirmation of a *)
(* preview that the client sends back.                                     *)
Wishes == [kind : {"say"}, has : SUBSET Words, auto : BOOLEAN]
            \cup [kind : {"confirm"}, has : {{k} : k \in Kinds \cup {"other"}}, auto : {TRUE}]

ChatPlaces == {"new", "opened", "recalled", "handled", "saved", "cached", "answered", "failed"}
Outcomes == {"none", "text", "preview", "confirmed", "error"}

CopilotTypeOK ==
  /\ talk \in [Conversations -> [there : BOOLEAN, count : Nat, exchanges : SUBSET Chats]]
  /\ typing \in [Conversations -> Chats \cup {Missing}]
  /\ cache \in [Conversations -> {Missing} \cup Seq(Chats)]
  /\ \A c \in Chats :
       /\ chat[c].wish \in Wishes /\ chat[c].pc \in ChatPlaces
       /\ chat[c].into \in Conversations /\ chat[c].seen \in Nat
       /\ chat[c].result \in [outcome : Outcomes, kind : Kinds \cup {"none"}, valid : BOOLEAN,
                               told : SUBSET Chats]
       /\ chat[c].read \in {Missing} \cup Seq(Chats)
  /\ made \subseteq [chat : Chats, kind : Kinds, valid : BOOLEAN]
  /\ started \in Seq(Chats)

Nothing == [outcome |-> "none", kind |-> "none", valid |-> FALSE, told |-> {}]

CopilotInit(wishes) ==
  /\ talk = [k \in Conversations |-> [there |-> k = Existing, count |-> 0, exchanges |-> {}]]
  /\ typing = [k \in Conversations |-> Missing]
  /\ cache = [k \in Conversations |-> Missing]
  /\ chat \in [Chats -> [wish : wishes, pc : {"new"}, into : {Existing}, seen : {0},
                         result : {Nothing}, read : {Missing}]]
  /\ made = {} /\ started = <<>>

Continues(c, pc) == chat' = [chat EXCEPT ![c].pc = pc]

-------------------------------------------------------------------------------
(* Before the answer *)

(* _get_or_create_conversation; a confirmation recalls nothing.            *)
OpenChat(c) ==
  /\ chat[c].pc = "new"
  /\ LET pc == IF chat[c].wish.kind = "confirm" THEN "recalled" ELSE "opened" IN
       \/ /\ talk[Existing].there
          /\ chat' = [chat EXCEPT ![c].pc = pc, ![c].seen = talk[Existing].count]
          /\ UNCHANGED typing
       \/ /\ chat' = [chat EXCEPT ![c].pc = pc, ![c].into = c]
          /\ typing' = [typing EXCEPT ![c] = c]
  /\ started' = Append(started, c)
  /\ UNCHANGED <<talk, cache, made>>

(* The place of the nth of some places in a sequence. *)
Nth(places, n) == CHOOSE i \in places : Cardinality({j \in places : j <= i}) = n

(* The rows of a conversation in the order of created_at, cut off after    *)
(* HistoryLimit exchanges: the oldest ones stay.                           *)
Stored(k) ==
  LET rows == {i \in DOMAIN started : started[i] \in talk[k].exchanges}
      kept == IF Cardinality(rows) > HistoryLimit THEN HistoryLimit ELSE Cardinality(rows)
  IN  [n \in 1..kept |-> started[Nth(rows, n)]]

(* _load_history: from the cache, or from the database into the cache.     *)
LoadHistory(c) ==
  /\ chat[c].pc = "opened"
  /\ LET k == chat[c].into IN
       \/ cache[k] # Missing /\ UNCHANGED cache
       \/ cache[k] = Missing /\ cache' = [cache EXCEPT ![k] = Stored(k)]
       \/ UNCHANGED cache                                   \* Redis is away
  /\ Continues(c, "recalled")
  /\ UNCHANGED <<talk, typing, made, started>>

Comes(outcome, kind, valid) == [outcome |-> outcome, kind |-> kind, valid |-> valid, told |-> {}]

Refuses(kind) == Comes("error", kind, FALSE)

(* What the model writes: prose, which an apology for a failed call is as  *)
(* well; an object without the rule or the name; or all that was asked     *)
(* for, with a rule that may not be valid.                                 *)
Writings == {"prose", "gap", "invalid", "good"}

HasJson(writing) == writing # "prose"

(* A variant that trusts the preview: it has been validated when it was    *)
(* made.                                                                   *)
SavesPreview(kind, valid) == Comes("confirmed", kind, valid)

(* The policy is validated again, whoever sends the rule. *)
CreatePolicyConfirmed(valid) ==
  IF valid THEN Comes("confirmed", "policy", TRUE) ELSE Refuses("policy")

(* An agent that is registered already gets the metadata. *)
RegisterAgentConfirmed == Comes("confirmed", "agent", FALSE)

CreateWebhookConfirmed == Comes("confirmed", "webhook", FALSE)

Confirmed(kind, valid) ==
  CASE kind = "policy" -> CreatePolicyConfirmed(valid)
    [] kind = "agent" -> RegisterAgentConfirmed
    [] kind = "webhook" -> CreateWebhookConfirmed
    [] OTHER -> Refuses("none")

ProposePolicy(auto, writing) ==
  IF ~HasJson(writing) \/ writing \in {"gap", "invalid"} THEN Refuses("policy")
  ELSE IF auto THEN Confirmed("policy", TRUE)
  ELSE Comes("preview", "policy", TRUE)

ProposeAgent(auto, writing) ==
  IF ~HasJson(writing) \/ writing = "gap" THEN Refuses("agent")
  ELSE IF auto THEN Confirmed("agent", FALSE)
  ELSE Comes("preview", "agent", FALSE)

(* The address is looked for in the message, without the model. *)
ProposeWebhook(auto, has) ==
  IF "link" \notin has THEN Refuses("webhook")
  ELSE IF auto THEN Confirmed("webhook", FALSE)
  ELSE Comes("preview", "webhook", FALSE)

Says(told) == [outcome |-> "text", kind |-> "none", valid |-> FALSE, told |-> told]

(* What a query finds, after the resources that this transaction has seen. *)
OfKind(kind) == {r.chat : r \in {q \in made : q.kind = kind}}

ListPolicies == Says(OfKind("policy"))
ListAgents == Says(OfKind("agent"))
ListWebhooks == Says(OfKind("webhook"))

(* The newest policy whose name occurs in the message, or a choice of some *)
(* for the next question.                                                  *)
ExplainPolicy == {Says(t) : t \in {OfKind("policy")} \cup {{p} : p \in OfKind("policy")}}

SampleText == Says({})
ExplainText == Says({})
GeneralText == Says({})

(* The dispatch *)
Replies(c, writing) ==
  LET w == chat[c].wish
      intent == Intent(w.has)
  IN  IF w.kind = "confirm"
      THEN {Confirmed(IF w.has \subseteq Kinds THEN CHOOSE k \in Kinds : k \in w.has ELSE "other",
                      writing = "good")}
      ELSE CASE intent = "list_policies" -> {ListPolicies}
             [] intent = "list_agents" -> {ListAgents}
             [] intent = "list_webhooks" -> {ListWebhooks}
             [] intent = "sample" -> {SampleText}
             [] intent = "policy" -> {ProposePolicy(w.auto, writing)}
             [] intent = "agent" -> {ProposeAgent(w.auto, writing)}
             [] intent = "webhook" -> {ProposeWebhook(w.auto, w.has), Refuses("webhook")}
             [] intent = "explain_policy" -> ExplainPolicy
             [] intent = "explain" -> {ExplainText}
             [] OTHER -> {GeneralText}

(* The handler; what it creates is part of the transaction. *)
Handle(c) ==
  /\ chat[c].pc = "recalled"
  /\ \E writing \in Writings : \E r \in Replies(c, writing) :
       chat' = [chat EXCEPT ![c].pc = "handled", ![c].result = r]
  /\ UNCHANGED <<talk, typing, cache, made, started>>

-------------------------------------------------------------------------------
(* After it *)

(* _save_messages: two rows, and the counter as it was read plus two.  The *)
(* UPDATE waits for another chat, and finds no row that has been deleted.  *)
SaveMessages(c) ==
  /\ chat[c].pc = "handled"
  /\ LET k == chat[c].into IN
       /\ typing[k] \in {c, Missing}
       /\ IF k = c \/ talk[k].there
          THEN typing' = [typing EXCEPT ![k] = c] /\ Continues(c, "saved")
          ELSE UNCHANGED typing /\ Continues(c, "failed")
  /\ UNCHANGED <<talk, cache, made, started>>

(* What is not in the cache is taken for nothing. *)
ReadCache(c) ==
  /\ chat[c].pc = "saved"
  /\ \E old \in {cache[chat[c].into], Missing} :
       chat' = [chat EXCEPT ![c].pc = "cached",
                            ![c].read = Append(IF old = Missing THEN <<>> ELSE old, c)]
  /\ UNCHANGED <<talk, typing, cache, made, started>>

LastOf(s) == SubSeq(s, IF Len(s) > HistoryLimit THEN Len(s) - HistoryLimit + 1 ELSE 1, Len(s))

(* The cache, if Redis is there, and the commit. *)
Finish(c) ==
  /\ chat[c].pc = "cached"
  /\ LET k == chat[c].into IN
       /\ cache' \in {cache, [cache EXCEPT ![k] = LastOf(chat[c].read)]}
       /\ talk' = [talk EXCEPT ![k] = [there |-> TRUE, count |-> chat[c].seen + 2,
                                       exchanges |-> @.exchanges \cup {c}]]
       /\ typing' = [typing EXCEPT ![k] = Missing]
  /\ made' = IF chat[c].result.outcome = "confirmed"
             THEN made \cup {[chat |-> c, kind |-> chat[c].result.kind,
                              valid |-> chat[c].result.valid]}
             ELSE made
  /\ Continues(c, "answered")
  /\ UNCHANGED started

(* Anything that raises, a resource that is there already among them: the  *)
(* cache may have been written.                                            *)
ChatFails(c) ==
  /\ chat[c].pc \in {"opened", "recalled", "handled", "saved", "cached"}
  /\ LET k == chat[c].into IN
       /\ \/ UNCHANGED cache
          \/ chat[c].pc = "cached" /\ cache' = [cache EXCEPT ![k] = LastOf(chat[c].read)]
       /\ typing' = [typing EXCEPT ![k] = IF @ = c THEN Missing ELSE @]
  /\ Continues(c, "failed")
  /\ UNCHANGED <<talk, made, started>>

(* The messages go with the conversation; the cache is emptied before the  *)
(* commit.                                                                 *)
DeleteConversation ==
  /\ talk[Existing].there /\ typing[Existing] = Missing
  /\ talk' = [talk EXCEPT ![Existing] = [there |-> FALSE, count |-> 0, exchanges |-> {}]]
  /\ cache' \in {cache, [cache EXCEPT ![Existing] = Missing]}
  /\ UNCHANGED <<typing, chat, made, started>>

CacheExpires(k) ==
  /\ cache[k] # Missing /\ cache' = [cache EXCEPT ![k] = Missing]
  /\ UNCHANGED <<talk, typing, chat, made, started>>

CopilotNext ==
  \/ \E c \in Chats :
       \/ OpenChat(c) \/ LoadHistory(c) \/ Handle(c)
       \/ SaveMessages(c) \/ ReadCache(c) \/ Finish(c) \/ ChatFails(c)
  \/ DeleteConversation
  \/ \E k \in Conversations : CacheExpires(k)

CopilotSpec == CopilotInit(Wishes) /\ [][CopilotNext]_copilotVars

-------------------------------------------------------------------------------
(* Properties *)

Answered == {c \in Chats : chat[c].pc = "answered"}

(* What the assistant says it has done is done: a confirmed resource is    *)
(* there, and every policy has been validated, the one that a client sends *)
(* back as well; a list names nothing that may yet be rolled back; what    *)
(* has been said is kept until it is deleted; and the counter, which two   *)
(* chats may write at once, never says more than there is.                 *)
SaysWhatIs ==
  /\ \A c \in Answered : chat[c].result.outcome = "confirmed" =>
       \E r \in made : r.chat = c /\ r.kind = chat[c].result.kind
  /\ \A r \in made : r.chat \in Answered /\ (r.kind = "policy" => r.valid)
  /\ \A c \in Chats : chat[c].result.told \subseteq {r.chat : r \in made}
  /\ \A c \in Answered : talk[chat[c].into].there => c \in talk[chat[c].into].exchanges
  /\ \A k \in Conversations : talk[k].count <= 2 * Cardinality(talk[k].exchanges)
===============================================================================
