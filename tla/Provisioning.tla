---------------------------- MODULE Provisioning ----------------------------
(***************************************************************************)
(* How an organization comes to be: a verified Clerk user signs in, Clerk  *)
(* announces the user, perhaps twice (routes/clerk.py), and an on-premises *)
(* worker finds an empty database when it starts (main.py), with the seeds *)
(* of services/org_service.py, services/onboarding_service.py and of the   *)
(* trigger of migration 003.                                               *)
(*                                                                         *)
(* All of them insert a row with a slug of its own kind under a unique     *)
(* index, in any order: an INSERT waits for a transaction that has         *)
(* inserted the slug, and fails once that one has committed.               *)
(***************************************************************************)
EXTENDS Naturals, FiniteSets

CONSTANTS
  Users,         \* slugs: the ids of the Clerk users
  Signups,       \* sign-ins and webhook deliveries
  Workers,       \* the API workers of an on-premises installation
  Trigger,       \* the database has the trigger of migration 003
  MaxDeaths      \* bound on the deaths of workers

OnPrem == "onprem"
Nobody == "nobody"

ASSUME ProvisioningAssumption ==
  /\ IsFiniteSet(Signups) /\ IsFiniteSet(Workers) /\ Signups \cap Workers = {}
  /\ OnPrem \notin Users /\ Nobody \notin Signups \cup Workers
  /\ Trigger \in BOOLEAN /\ MaxDeaths \in Nat

VARIABLES
  org,           \* org[s]: who made the committed organization with slug s
  slugHolder,    \* slugHolder[s]: whose transaction has inserted s
  seeds,         \* seeds[s]: how often each set of policies has been committed
  signup,        \* signup[c]: a sign-in or a webhook delivery
  server,        \* server[w]: a worker that starts
  shown,         \* the keys printed at the first start
  deaths

provisioningVars == <<org, slugHolder, seeds, signup, server, shown, deaths>>

Slugs == Users \cup {OnPrem}
Makers == Signups \cup Workers \cup {Nobody}
SeedSet == [default : Nat, quickstart : Nat]

CallPlaces == {"new", "insert", "seed", "commit", "raced", "answered", "failed"}
ServerPlaces == {"down", "license", "count", "insert", "commit", "print", "engine", "seed",
                 "seed_commit", "serving", "refused"}

ProvisioningTypeOK ==
  /\ org \in [Slugs -> Makers] /\ slugHolder \in [Slugs -> Makers]
  /\ seeds \in [Slugs -> SeedSet]
  /\ signup \in [Signups -> [kind : {"sign_in", "webhook"}, slug : Users, pc : CallPlaces,
                         answer : Makers]]
  /\ server \in [Workers -> [pc : ServerPlaces, firstBoot : BOOLEAN]]
  /\ shown \subseteq Workers
  /\ deaths \in 0 .. MaxDeaths

(* Who takes no part has failed already, or does not start. *)
ProvisioningInit ==
  /\ org = [s \in Slugs |-> Nobody]
  /\ slugHolder = [s \in Slugs |-> Nobody]
  /\ seeds = [s \in Slugs |-> [default |-> 0, quickstart |-> 0]]
  /\ signup \in [Signups -> [kind : {"sign_in", "webhook"}, slug : Users,
                             pc : {"new", "failed"}, answer : {Nobody}]]
  /\ server \in [Workers -> [pc : {"down", "refused"}, firstBoot : {FALSE}]]
  /\ shown = {}
  /\ deaths \in 0 .. MaxDeaths

-------------------------------------------------------------------------------
(* Sign-ins and webhooks *)

Proceeds(c, pc) == signup' = [signup EXCEPT ![c].pc = pc]

AnswersWith(c, maker) == signup' = [signup EXCEPT ![c].pc = "answered", ![c].answer = maker]

Idle == <<server, shown, deaths>>

(* The sign-in looks for the organization of the user; the webhook does    *)
(* not.                                                                    *)
FindOrg(c) ==
  /\ signup[c].pc = "new"
  /\ IF signup[c].kind = "sign_in" /\ org[signup[c].slug] # Nobody
     THEN AnswersWith(c, org[signup[c].slug])
     ELSE Proceeds(c, "insert")
  /\ UNCHANGED <<org, slugHolder, seeds, Idle>>

(* After the IntegrityError: the sign-in rolls back to its SAVEPOINT and   *)
(* reads again, the webhook has nothing left to do.                        *)
RacedTo(kind) == IF kind = "sign_in" THEN "raced" ELSE "answered"

(* A variant that takes the object it tried to insert for the row.         *)
OwnObject(c) == c

(* What a lost race finds when it reads again. *)
Winner(c) == org[signup[c].slug]

InsertOrg(c) ==
  /\ signup[c].pc = "insert"
  /\ LET s == signup[c].slug IN
       /\ slugHolder[s] = Nobody
       /\ IF org[s] = Nobody
          THEN slugHolder' = [slugHolder EXCEPT ![s] = c] /\ Proceeds(c, "seed")
          ELSE UNCHANGED slugHolder /\ Proceeds(c, RacedTo(signup[c].kind))
  /\ UNCHANGED <<org, seeds, Idle>>

SeedDefaults(c) ==
  /\ signup[c].pc = "seed" /\ Proceeds(c, "commit")
  /\ UNCHANGED <<org, slugHolder, seeds, Idle>>

ReadAgain(c) ==
  /\ signup[c].pc = "raced"
  /\ AnswersWith(c, Winner(c))
  /\ UNCHANGED <<org, slugHolder, seeds, Idle>>

(* on_org_created, in the transaction that inserts the organization. *)
WithTrigger(n) == IF Trigger THEN n + 1 ELSE n

CommitOrg(c) ==
  /\ signup[c].pc = "commit"
  /\ org' = [org EXCEPT ![signup[c].slug] = c]
  /\ seeds' = [seeds EXCEPT ![signup[c].slug].default = WithTrigger(@ + 1)]
  /\ slugHolder' = [slugHolder EXCEPT ![signup[c].slug] = Nobody]
  /\ AnswersWith(c, c)
  /\ UNCHANGED Idle

(* Anything that raises, the loss of the process or of its connection.     *)
CallFails(c) ==
  /\ signup[c].pc \in {"new", "insert", "seed", "commit", "raced"}
  /\ slugHolder' = [s \in Slugs |-> IF slugHolder[s] = c THEN Nobody ELSE slugHolder[s]]
  /\ Proceeds(c, "failed")
  /\ UNCHANGED <<org, seeds, Idle>>

-------------------------------------------------------------------------------
(* An on-premises worker *)

Moves(w, pc) == server' = [server EXCEPT ![w].pc = pc]

StartWorker(w) ==
  /\ server[w].pc = "down"
  /\ server' = [server EXCEPT ![w] = [pc |-> "license", firstBoot |-> FALSE]]
  /\ UNCHANGED <<org, slugHolder, seeds, signup, shown, deaths>>

(* validate_license and validate_production_settings raise, or do not.     *)
CheckLicense(w) ==
  /\ server[w].pc = "license"
  /\ Moves(w, "count") \/ Moves(w, "refused")
  /\ UNCHANGED <<org, slugHolder, seeds, signup, shown, deaths>>

CountOrgs(w) ==
  /\ server[w].pc = "count"
  /\ Moves(w, IF org[OnPrem] = Nobody THEN "insert" ELSE "engine")
  /\ UNCHANGED <<org, slugHolder, seeds, signup, shown, deaths>>

BootstrapInsert(w) ==
  /\ server[w].pc = "insert" /\ slugHolder[OnPrem] = Nobody
  /\ IF org[OnPrem] = Nobody
     THEN slugHolder' = [slugHolder EXCEPT ![OnPrem] = w] /\ Moves(w, "commit")
     ELSE UNCHANGED slugHolder /\ Moves(w, "down")     \* the IntegrityError ends the worker
  /\ UNCHANGED <<org, seeds, signup, shown, deaths>>

BootstrapCommit(w) ==
  /\ server[w].pc = "commit"
  /\ org' = [org EXCEPT ![OnPrem] = w]
  /\ seeds' = [seeds EXCEPT ![OnPrem].default = WithTrigger(@)]
  /\ slugHolder' = [slugHolder EXCEPT ![OnPrem] = Nobody]
  /\ server' = [server EXCEPT ![w].pc = "print"]
  /\ UNCHANGED <<signup, shown, deaths>>

PrintKey(w) ==
  /\ server[w].pc = "print"
  /\ shown' = shown \cup {w}
  /\ server' = [server EXCEPT ![w] = [pc |-> "engine", firstBoot |-> TRUE]]
  /\ UNCHANGED <<org, slugHolder, seeds, signup, deaths>>

(* The pool, the CLI that may be required, the registry, the resumed jobs. *)
StartEngine(w) ==
  /\ server[w].pc = "engine"
  /\ Moves(w, IF server[w].firstBoot THEN "seed" ELSE "serving") \/ Moves(w, "refused")
  /\ UNCHANGED <<org, slugHolder, seeds, signup, shown, deaths>>

(* run_quickstart_seed: nothing has been evaluated, no policy is active.   *)
Quickstart(w) ==
  /\ server[w].pc = "seed"
  /\ \/ /\ seeds[OnPrem] = [default |-> 0, quickstart |-> 0]
        /\ Moves(w, "seed_commit")
     \/ Moves(w, "serving")          \* the organization has been used since
  /\ UNCHANGED <<org, slugHolder, seeds, signup, shown, deaths>>

QuickstartCommit(w) ==
  /\ server[w].pc = "seed_commit"
  /\ seeds' = [seeds EXCEPT ![OnPrem].quickstart = @ + 1]
  /\ Moves(w, "serving")
  /\ UNCHANGED <<org, slugHolder, signup, shown, deaths>>

(* The container is started again. *)
WorkerDies(w) ==
  /\ server[w].pc # "down" /\ deaths < MaxDeaths
  /\ Moves(w, "down") /\ deaths' = deaths + 1
  /\ slugHolder' = [s \in Slugs |-> IF slugHolder[s] = w THEN Nobody ELSE slugHolder[s]]
  /\ UNCHANGED <<org, seeds, signup, shown>>

ProvisioningNext ==
  \/ \E c \in Signups :
       \/ FindOrg(c) \/ InsertOrg(c) \/ SeedDefaults(c) \/ ReadAgain(c) \/ CommitOrg(c)
       \/ CallFails(c)
  \/ \E w \in Workers :
       \/ StartWorker(w) \/ CheckLicense(w) \/ CountOrgs(w) \/ BootstrapInsert(w)
       \/ BootstrapCommit(w) \/ PrintKey(w) \/ StartEngine(w)
       \/ Quickstart(w) \/ QuickstartCommit(w) \/ WorkerDies(w)

ProvisioningSpec == ProvisioningInit /\ [][ProvisioningNext]_provisioningVars
-------------------------------------------------------------------------------
(* Properties *)

(* Whoever signs in is given the key of the one organization there is, also *)
(* when another made it meanwhile; a webhook is acknowledged only for a     *)
(* user who has one.                                                        *)
AnswersName ==
  \A c \in Signups : signup[c].pc = "answered" =>
    LET s == signup[c].slug IN
      /\ org[s] # Nobody
      /\ signup[c].kind = "sign_in" => signup[c].answer = org[s]

(* Several workers start at once and die anywhere, and yet only a key that *)
(* works is printed, and the starter policies are added once, and only     *)
(* where there is no other.                                                *)
StartedOnce ==
  /\ shown \subseteq {org[OnPrem]}
  /\ seeds[OnPrem].quickstart <= 1
  /\ seeds[OnPrem].quickstart = 1 => seeds[OnPrem].default = 0

(* However many find no organization at once, one is made and all of them  *)
(* know it.                                                                *)
ProvisionedOnce == AnswersName /\ StartedOnce
===============================================================================
