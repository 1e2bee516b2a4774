---------------------------- MODULE AgentRegistry ----------------------------
(***************************************************************************)
(* The registered agents of an organization: one agent_id, and the         *)
(* requests that register, change and delete its row (routes/agents.py).   *)
(*                                                                         *)
(* As everywhere in the service a request reads the row without a lock and *)
(* writes the columns that it changes; the statement waits for another     *)
(* transaction that has written the row, and UNIQUE (org_id, agent_id)     *)
(* lets one of two first registrations fail.                               *)
(*                                                                         *)
(* Three columns stand for all: "profile" (name, owner, framework,         *)
(* environment and capabilities, written when they are given), "trust"     *)
(* (which a registration writes always) and "metadata", one JSON value     *)
(* with the agent's own entries and the description.                       *)
(***************************************************************************)
EXTENDS Naturals, Sequences, SequencesExt, FiniteSets

CONSTANTS
  Edits,         \* the requests
  Values,        \* what a column may hold
  Plain          \* the column's default: no profile, trust "unknown"

ASSUME RegistryAssumption ==
  IsFiniteSet(Edits) /\ "nobody" \notin Edits /\ Plain \in Values

VARIABLES
  agent,         \* the committed row; id 0 when there is none
  writer,        \* the request whose transaction has written it, or "nobody"
  edit,          \* the requests
  edits          \* the requests that have committed, in order

registryVars == <<agent, writer, edit, edits>>

Columns == {"profile", "trust", "metadata"}
Entries == {"own", "description"}
Row == [id : 0..Cardinality(Edits) + 1, profile : Values, trust : Values,
        metadata : SUBSET Entries]
EditKinds == {"register", "update", "delete"}
EditPlaces == {"new", "read", "written", "committed", "not_found", "failed"}

(* gives: the columns in the body that are not null. *)
Edit == [kind : EditKinds, gives : SUBSET Columns, value : Values, pc : EditPlaces, seen : Row]

RegistryTypeOK ==
  /\ agent \in Row /\ edit \in [Edits -> Edit]
  /\ writer \in Edits \cup {"nobody"} /\ edits \in Seq(Edits)

NoAgent == [id |-> 0, profile |-> Plain, trust |-> Plain, metadata |-> {}]

(* What a request asks for. *)
Wanted == [kind : EditKinds, gives : SUBSET Columns, value : Values]

(* The agent may be registered already. *)
RegistryInit(wanted) ==
  /\ agent \in {NoAgent, [NoAgent EXCEPT !.id = 1]}
  /\ writer = "nobody" /\ edits = <<>>
  /\ edit \in [Edits -> {[kind |-> w.kind, gives |-> w.gives, value |-> w.value,
                          pc |-> "new", seen |-> NoAgent] : w \in wanted}]

(* The lookup; a change names the row by its id, which a client has once   *)
(* there is a row.                                                         *)
ReadAgent(e) ==
  /\ edit[e].pc = "new"
  /\ edit' = [edit EXCEPT ![e].seen = agent,
                          ![e].pc = IF agent.id = 0 /\ edit[e].kind # "register"
                                    THEN "not_found" ELSE "read"]
  /\ UNCHANGED <<agent, writer, edits>>

(* The body of a request over a row. *)
Given(e, row, c) == IF c \in edit[e].gives THEN edit[e].value ELSE row[c]

(* A registration writes the metadata of its body, or {}; a change puts    *)
(* the description into the metadata that it has read.                     *)
NewMetadata(e) ==
  LET given == "metadata" \in edit[e].gives
  IN  IF edit[e].kind = "register"
      THEN IF given THEN {"own"} ELSE {}
      ELSE edit[e].seen.metadata \cup (IF given THEN {"description"} ELSE {})

(* A registration that names no trust_level writes the default.            *)
Assigned(e, c) ==
  CASE c = "metadata" -> NewMetadata(e)
    [] c = "trust" /\ edit[e].kind = "register" -> Given(e, NoAgent, c)
    [] OTHER -> Given(e, edit[e].seen, c)

InsertsAgent(e) == edit[e].seen.id = 0

(* The columns the statement writes: those with another value than was     *)
(* read.                                                                   *)
Sets(e) ==
  IF InsertsAgent(e) THEN Columns ELSE {c \in Columns : Assigned(e, c) # edit[e].seen[c]}

WritesRow(e) == edit[e].kind = "delete" \/ Sets(e) # {}

(* The flush: no row of that id any more is an error, and so is another    *)
(* row for the agent.                                                      *)
FlushAgent(e) ==
  /\ edit[e].pc = "read"
  /\ IF WritesRow(e)
     THEN /\ writer = "nobody"
          /\ IF agent.id = edit[e].seen.id
             THEN writer' = e /\ edit' = [edit EXCEPT ![e].pc = "written"]
             ELSE UNCHANGED writer /\ edit' = [edit EXCEPT ![e].pc = "failed"]
     ELSE UNCHANGED writer /\ edit' = [edit EXCEPT ![e].pc = "written"]
  /\ UNCHANGED <<agent, edits>>

(* A variant that writes every column as it was read. *)
SavesAll(e, row) == [c \in Columns |-> Assigned(e, c)]

(* The columns once e has committed. *)
Saved(e, row) == [c \in Columns |-> IF c \in Sets(e) THEN Assigned(e, c) ELSE row[c]]

CommitAgent(e) ==
  /\ edit[e].pc = "written"
  /\ LET after == Saved(e, agent) IN
       agent' = IF edit[e].kind = "delete" THEN NoAgent
                ELSE IF ~WritesRow(e) THEN agent
                ELSE [id |-> IF InsertsAgent(e) THEN Len(edits) + 2 ELSE agent.id,
                      profile |-> after["profile"], trust |-> after["trust"],
                      metadata |-> after["metadata"]]
  /\ writer' = IF writer = e THEN "nobody" ELSE writer
  /\ edits' = Append(edits, e)
  /\ edit' = [edit EXCEPT ![e].pc = "committed"]

RollBackAgent(e) ==
  /\ edit[e].pc \in {"read", "written"}
  /\ edit' = [edit EXCEPT ![e].pc = "failed"]
  /\ writer' = IF writer = e THEN "nobody" ELSE writer
  /\ UNCHANGED <<agent, edits>>

RegistryNext ==
  \E e \in Edits : ReadAgent(e) \/ FlushAgent(e) \/ CommitAgent(e) \/ RollBackAgent(e)

RegistrySpec == RegistryInit(Wanted) /\ [][RegistryNext]_registryVars

-------------------------------------------------------------------------------
(* Properties *)

(* Request e has written column c of a row. *)
Wrote(e, c) == edit[e].kind # "delete" /\ c \in Sets(e)

(* A profile that was saved stays: every column of the row holds what the  *)
(* last request to write that column gave it, although the requests read   *)
(* and write the row at once, and a request that says nothing of a column  *)
(* takes nothing back.                                                     *)
ProfilesStick ==
  agent.id # 0 => \A c \in Columns : \A i \in DOMAIN edits :
    /\ Wrote(edits[i], c)
    /\ \A j \in i + 1..Len(edits) : ~Wrote(edits[j], c)
    => agent[c] = Assigned(edits[i], c)
===============================================================================
