----------------------------- MODULE AuditReaders -----------------------------
(***************************************************************************)
(* The readers of the audit log in routes/audit.py, beside the writers of  *)
(* AuditChain: verify_audit_chain, which recomputes the hash chain page by *)
(* page, and a client that lists the events with the cursor `after`.       *)
(*                                                                         *)
(* Each page is a statement of its own, so that it sees the rows committed *)
(* when it starts, and rows of equal sequence_num come in any order.       *)
(***************************************************************************)
EXTENDS AuditChain, Sequences, SequencesExt

CONSTANTS
  Readers,        \* the readers that run: a subset of {"verify", "list"}
  PageSize,       \* _VERIFY_PAGE_SIZE, and the limit of the listing
  VerifyLimit     \* the limit of verify_audit_chain

ASSUME PagesNotEmpty == PageSize \in Nat \ {0} /\ VerifyLimit \in Nat \ {0}

VARIABLES
  verify,   \* the verification: where it stands, what it has walked
  listing   \* the listing: its cursor, the events the client has received

readerVars == <<verify, listing>>
allVars == <<committed, phase, last, draft, verify, listing>>

ReadersInit ==
  /\ Init
  /\ verify = [pc |-> "idle", offset |-> 0, prev |-> NoEvent, total |-> 0, forked |-> FALSE]
  /\ listing = [pc |-> "idle", cursor |-> 0, seen |-> << >>, start |-> {}]

-------------------------------------------------------------------------------
(* The rows of S in the orders ORDER BY sequence_num may return them. *)
Ascending(S) ==
  {o \in SetToSeqs(S) : \A i, j \in DOMAIN o : i < j => o[i].seq <= o[j].seq}

Descending(S) == {Reverse(o) : o \in Ascending(S)}

(* OFFSET k LIMIT n *)
Page(rows, k, n) == SubSeq(rows, k + 1, IF k + n < Len(rows) THEN k + n ELSE Len(rows))

(* Two rows share a number within the first n rows. *)
ForkWithin(S, n) ==
  \E e, f \in S : /\ e # f /\ e.seq = f.seq
                  /\ Cardinality({g \in S : g.seq <= e.seq}) <= n

(* The hash of page[k], recomputed on the hash of the row before it, is not *)
(* the entry_hash the row carries.                                          *)
Breaks(page, k, prev) == page[k].prev # (IF k = 1 THEN prev ELSE page[k - 1].id)

-------------------------------------------------------------------------------
StartVerify ==
  /\ "verify" \in Readers /\ verify.pc = "idle"
  /\ verify' = [verify EXCEPT !.pc = "walking",
                              !.forked = ForkWithin(committed, VerifyLimit)]
  /\ UNCHANGED <<vars, listing>>

(* A variant that forgets the hash between two pages.                      *)
CarryNothing(page, prev) == NoEvent

(* The hash the next page starts from. *)
Carry(page, prev) == IF page = << >> THEN prev ELSE page[Len(page)].id

LastPage(page, batch) == page = << >> \/ Len(page) < batch

(* One turn of the loop of verify_audit_chain: a page is fetched and walked.*)
VerifyPage ==
  /\ verify.pc = "walking"
  /\ \E rows \in Ascending(committed) :
       LET batch == IF VerifyLimit - verify.total < PageSize
                    THEN VerifyLimit - verify.total ELSE PageSize
           page == Page(rows, verify.offset, batch)
           broken == \E k \in DOMAIN page : Breaks(page, k, verify.prev)
       IN  verify' = [verify EXCEPT
             !.pc = IF broken THEN "broken" ELSE IF LastPage(page, batch) THEN "valid" ELSE "walking",
             !.offset = @ + Len(page),
             !.prev = Carry(page, @),
             !.total = @ + Len(page)]
  /\ UNCHANGED <<vars, listing>>

(* The client asks for its first page; start records what is there. *)
StartList ==
  /\ "list" \in Readers /\ listing.pc = "idle"
  /\ listing' = [listing EXCEPT !.pc = "paging", !.start = committed]
  /\ UNCHANGED <<vars, verify>>

(* A variant that pages by offset instead of by cursor. *)
ListPageByOffset ==
  /\ listing.pc = "paging"
  /\ \E rows \in Descending(committed) :
       LET page == Page(rows, Len(listing.seen), PageSize)
       IN  listing' = [listing EXCEPT
             !.pc = IF Len(page) = PageSize THEN "paging" ELSE "done",
             !.seen = @ \o page]
  /\ UNCHANGED <<vars, verify>>

(* GET /v1/audit?after=cursor: the newest events below the cursor.  A full *)
(* page carries X-AGR-Next-Cursor, and the client goes on.                 *)
ListPage ==
  /\ listing.pc = "paging"
  /\ \E rows \in Descending({e \in committed : listing.cursor = 0 \/ e.seq < listing.cursor}) :
       LET page == Page(rows, 0, PageSize)
           more == Len(page) = PageSize
       IN  listing' = [listing EXCEPT
             !.pc = IF more THEN "paging" ELSE "done",
             !.cursor = IF more THEN page[PageSize].seq ELSE @,
             !.seen = @ \o page]
  /\ UNCHANGED <<vars, verify>>

ReadersNext ==
  \/ Next /\ UNCHANGED readerVars
  \/ StartVerify
  \/ VerifyPage
  \/ StartList
  \/ ListPage

ReadersSpec == ReadersInit /\ [][ReadersNext]_allVars

-------------------------------------------------------------------------------
(* Properties *)

(* No false alarm: verify_audit_chain reports a break only where the log   *)
(* has forked, although pages are read at different moments and a fork may *)
(* push a row from one page into the next.                                 *)
AlarmIsReal ==
  verify.pc = "broken" => \E e, f \in committed : e # f /\ e.seq = f.seq

(* No fork is missed: when two events shared a number as the verification  *)
(* began, within the rows it may walk, it does not report a valid chain,   *)
(* wherever the page boundaries fall.                                      *)
ForkIsReported == verify.pc = "valid" => ~verify.forked

(* The verification is right either way, whatever is appended meanwhile.   *)
VerdictIsRight == AlarmIsReal /\ ForkIsReported

(* A client that follows the cursor receives every event that was there    *)
(* when it began, none twice, while evaluations keep appending.            *)
CursorIsComplete ==
  /\ listing.pc = "done" => listing.start \subseteq ToSet(listing.seen)
  /\ \A i, j \in DOMAIN listing.seen :
       i # j => listing.seen[i].seq # listing.seen[j].seq
===============================================================================
