------------------------------- MODULE Window -------------------------------
(***************************************************************************)
(* The read-ahead of a file's readers and the budget of decoded bytes they *)
(* share (stream/src/lib.rs).                                              *)
(*                                                                         *)
(* A reader keeps fetches for the segments head .. next - 1.  Each waits   *)
(* for the one before it to have its share of the budget, then for its     *)
(* own, in line with all readers; the one a read is blocked on goes over   *)
(* budget instead.  A body streams in, is sent again from its start by     *)
(* another connection when one fails, and may be raced by a hedge.         *)
(*                                                                         *)
(* A poll of a read is one step, as is a step of a fetch's task.  Bytes    *)
(* are counted in units of which a segment has `Units`; a segment's budget *)
(* is counted apart, as Cost.  Bounds: reads take what there is of their   *)
(* segment, and seeks go to the start of one.                              *)
(***************************************************************************)
EXTENDS Naturals, FiniteSets, Sequences, SequencesExt

CONSTANTS
    Readers,
    Cost,       \* Cost[r][s]: what segment s of r's file takes of the budget, cut to all of it
    Units,      \* Units[r]: units a segment of r's file is read in
    Prefetch,   \* length of the window
    Capacity,   \* of the budget
    Holes,      \* segments recorded as unavailable: filled without a fetch
    Surprises   \* bound: seeks, reads given up, failures, retries and hedges

ASSUME WindowAssumption ==
    /\ Units \in [Readers -> Nat \ {0}] /\ Prefetch \in Nat \ {0}
    /\ Capacity \in Nat \ {0} /\ Surprises \in Nat
    /\ \A r \in Readers : Cost[r] # <<>> /\ Range(Cost[r]) \subseteq 1 .. Capacity
    /\ \A h \in Holes : h[1] \in Readers /\ h[2] \in DOMAIN Cost[h[1]]

VARIABLES
    pos,        \* pos[r]: where reader r reads
    reading,    \* readers whose read has not returned
    window,     \* window[r]: head, next and the fetches between
    current,    \* current[r]: the segment in hand, and whether it holds budget
    previous,   \* previous[r]: the one before, outside the budget, or 0
    hedge,      \* hedge[r]: the request racing the head, and the segment it asks for
    line,       \* fetches waiting for budget, in order: reader and segment
    strays,     \* strays[f]: fetches of f = <<r, s>> read to their end, with budget until they end
    surprises

reader == <<pos, reading, current, previous>>
vars == <<reader, window, hedge, line, strays, surprises>>

None == [seg |-> 0, permit |-> FALSE]
NoHedge == [seg |-> 0, stage |-> "none"]

Files == UNION {{r} \X DOMAIN Cost[r] : r \in Readers}

\* Outside any window, so that the first read starts one.
Closed(r) == [head |-> Len(Cost[r]) + 2, next |-> Len(Cost[r]) + 2, pending |-> <<>>]

\* A segment's fetch: `data` is what reached the reader, `sent` the units the present
\* connection sent, `read` how much the reader saw.  Only a running one has any.
Fetch(s, stage, permit) ==
    [seg |-> s, stage |-> stage, permit |-> permit, urgent |-> FALSE,
     sent |-> 0, data |-> <<>>, read |-> 0]

\* As `schedule` spawns it.
Spawned(r, s) == Fetch(s, IF <<r, s>> \in Holes THEN "done" ELSE "chained", FALSE)

Init ==
    /\ pos = [r \in Readers |-> 0] /\ reading = {}
    /\ window = [r \in Readers |-> Closed(r)]
    /\ current = [r \in Readers |-> None] /\ previous = [r \in Readers |-> 0]
    /\ hedge = [r \in Readers |-> NoHedge]
    /\ line = <<>> /\ strays = [f \in Files |-> 0]
    /\ surprises = 0

Surprise == surprises < Surprises /\ surprises' = surprises + 1
Length(r) == Len(Cost[r]) * Units[r]
Index(r) == pos[r] \div Units[r] + 1
Offset(r) == pos[r] % Units[r]

----------------------------------------------------------------------------
(* The budget.                                                             *)

\* Who holds budget for segment s: its fetch, the reader that has it in hand, and strays.
Shares(r, s) ==
    {<<"fetch", 1>> : fetch \in {w \in Range(window[r].pending) : w.seg = s /\ w.permit}}
    \cup {<<"in hand", 1>> : hand \in {current[r]} \cap {[seg |-> s, permit |-> TRUE]}}
    \cup {"stray"} \X (1 .. strays[<<r, s>>])

\* The budget that is held, piece by piece.
Held == UNION {{f} \X Shares(f[1], f[2]) \X (1 .. Cost[f[1]][f[2]]) : f \in Files}

Free == Capacity - Cardinality(Held)

Replace(w, i, fetch) ==
    [head |-> w.head, next |-> w.next, pending |-> [w.pending EXCEPT ![i] = fetch]]

Set(r, i, fetch) == window' = [window EXCEPT ![r] = Replace(@, i, fetch)]

Waits(fetch) == fetch.stage \in {"chained", "queued"}

\* The fetches before this one have acquired, were let through, or are gone.
Unchained(r, i) == \A j \in 1 .. i - 1 : ~Waits(window[r].pending[j])

\* The permit is there for the taking, which `acquire` prefers to going over budget.
Grantable(r, i) ==
    LET fetch == window[r].pending[i] IN
      /\ \/ fetch.stage = "chained" /\ Unchained(r, i) /\ line = <<>>
         \/ fetch.stage = "queued" /\ line[1] = <<r, fetch.seg>>
      /\ Cost[r][fetch.seg] <= Free

Leave(r, segs) == SelectSeq(line, LAMBDA w : ~(w[1] = r /\ w[2] \in segs))

Acquire(r, i) ==
    /\ Grantable(r, i)
    /\ Set(r, i, Fetch(window[r].pending[i].seg, "running", TRUE))
    /\ line' = Leave(r, {window[r].pending[i].seg})
    /\ UNCHANGED <<reader, hedge, strays, surprises>>

Enqueue(r, i) ==
    /\ window[r].pending[i].stage = "chained" /\ Unchained(r, i) /\ ~Grantable(r, i)
    /\ Set(r, i, [window[r].pending[i] EXCEPT !.stage = "queued"])
    /\ line' = Append(line, <<r, window[r].pending[i].seg>>)
    /\ UNCHANGED <<reader, hedge, strays, surprises>>

\* A read is blocked on it: it goes over budget.
Bypass(r, i) ==
    /\ Waits(window[r].pending[i]) /\ window[r].pending[i].urgent /\ ~Grantable(r, i)
    /\ Set(r, i, Fetch(window[r].pending[i].seg, "running", FALSE))
    /\ line' = Leave(r, {window[r].pending[i].seg})
    /\ UNCHANGED <<reader, hedge, strays, surprises>>

----------------------------------------------------------------------------
(* A fetch's task.                                                         *)

Running(r, i) == window[r].pending[i].stage = "running"

\* `Partial::poll`: only what is new of the units from + 1 .. to.
Joined(data, from, to) ==
    IF from <= Len(data) /\ Len(data) <= to
    THEN data \o [u \in 1 .. to - Len(data) |-> Len(data) + u]
    ELSE data

Streamed(fetch, to) ==
    [[fetch EXCEPT !.data = Joined(@, fetch.sent, to)] EXCEPT !.sent = to]

\* Decoded units are sent on, all those not sent yet.
Chunk(r, i) ==
    /\ Running(r, i)
    /\ \E to \in window[r].pending[i].sent + 1 .. Units[r] : Set(r, i, Streamed(window[r].pending[i], to))
    /\ UNCHANGED <<reader, hedge, line, strays, surprises>>

\* The connection fails and another sends the body from its start.
Resend(r, i) ==
    /\ Running(r, i) /\ window[r].pending[i].sent > 0 /\ Surprise
    /\ Set(r, i, [window[r].pending[i] EXCEPT !.sent = 0])
    /\ UNCHANGED <<reader, hedge, line, strays>>

\* The whole body, or its filler; or an error.
End(r, i) ==
    /\ Running(r, i)
    /\ LET fetch == window[r].pending[i] IN
         \/ Set(r, i, Fetch(fetch.seg, "done", fetch.permit)) /\ UNCHANGED surprises
         \/ Set(r, i, Fetch(fetch.seg, "failed", FALSE)) /\ Surprise
    /\ UNCHANGED <<reader, hedge, line, strays>>

StrayEnds(f) ==
    /\ strays[f] > 0 /\ strays' = [strays EXCEPT ![f] = @ - 1]
    /\ UNCHANGED <<reader, window, hedge, line, surprises>>

HedgeEnds(r) ==
    /\ hedge[r].stage = "running"
    /\ \/ hedge' = [hedge EXCEPT ![r].stage = "done"] /\ UNCHANGED surprises
       \/ hedge' = [hedge EXCEPT ![r].stage = "failed"] /\ Surprise
    /\ UNCHANGED <<reader, window, line, strays>>

----------------------------------------------------------------------------
(* The window.                                                             *)

\* `align`: from a window, the one that starts at `index`, with the fetches it keeps.
Outside(w, index) == index < w.head \/ index > w.next

Align(w, index) ==
    IF Outside(w, index) THEN [head |-> index, next |-> index, pending |-> <<>>]
    ELSE [head |-> index, next |-> w.next,
          pending |-> SubSeq(w.pending, index - w.head + 1, Len(w.pending))]

\* The fetches it cancels.
Cut(w, index) ==
    {w.pending[i] : i \in {i \in DOMAIN w.pending : Outside(w, index) \/ i <= index - w.head}}

\* `schedule`.
Fill(r, w) ==
    LET end == Max({w.next, Min({Len(Cost[r]) + 1, w.head + Prefetch})}) IN
      [head |-> w.head, next |-> end,
       pending |-> w.pending \o [i \in 1 .. end - w.next |-> Spawned(r, w.next + i - 1)]]

\* Mutant of Urge: every fetch of the window is let through.
Urge_All(w) ==
    [w EXCEPT !.pending = [i \in DOMAIN @ |-> [@[i] EXCEPT !.urgent = Waits(w.pending[i])]]]

\* Mutant of Urge: none is.
Urge_None(w) == w

\* A read waits for the head.
Urge(w) ==
    IF Waits(w.pending[1]) THEN Replace(w, 1, [w.pending[1] EXCEPT !.urgent = TRUE]) ELSE w

\* The window a read finds its head in.
Opened(r) == Urge(Fill(r, Align(window[r], Index(r))))
Popped(w) == [head |-> w.head + 1, next |-> w.next, pending |-> Tail(w.pending)]

\* `cancel`: aborted, unless the reader saw all of it.
Cancel(r, cut) ==
    /\ line' = Leave(r, {c.seg : c \in cut})
    /\ strays' = [f \in Files |->
          strays[f] + Cardinality({c \in cut : f = <<r, c.seg>> /\ c.permit
                                                /\ c.stage = "running" /\ c.read = Units[r]})]

\* Mutant of Raced: a hedge outlives the move to another head.
Raced_Kept(r) == hedge[r]

\* The hedge `align` leaves.
Raced(r) == IF Index(r) = window[r].head THEN hedge[r] ELSE NoHedge

----------------------------------------------------------------------------
(* A read: `read_into`, `poll_head`, `read_partial`.                       *)

InHand(r) == r \in reading /\ Index(r) \in {current[r].seg, previous[r]}
Needs(r) == r \in reading /\ ~InHand(r)

\* The read returns, with this many units.
Returns(r, units) ==
    /\ pos' = [pos EXCEPT ![r] = @ + units]
    /\ reading' = reading \ {r}

ReadInHand(r) ==
    /\ InHand(r)
    /\ Returns(r, Units[r] - Offset(r))
    /\ UNCHANGED <<current, previous, window, hedge, line, strays, surprises>>

\* The segment in hand is kept, without its budget, while the next one is waited for.
PutAside(r) ==
    previous' = IF current[r] # None THEN [previous EXCEPT ![r] = current[r].seg] ELSE previous

\* The head's fetch has ended, or the hedge beat it.
ReadHead(r) ==
    /\ Needs(r)
    /\ \E w \in {Opened(r)} : \E head \in {w.pending[1]} : LET ended == head.stage = "done" IN
         /\ ended \/ (head.stage # "failed" /\ Raced(r).stage = "done")
         /\ window' = [window EXCEPT ![r] = Fill(r, Popped(w))]
         /\ current' = [current EXCEPT ![r] = [seg |-> head.seg, permit |-> ended /\ head.permit]]
         /\ Cancel(r, Cut(window[r], Index(r)) \cup {Fetch(head.seg, head.stage, FALSE)})
    /\ PutAside(r)
    /\ hedge' = [hedge EXCEPT ![r] = NoHedge]
    /\ Returns(r, Units[r] - Offset(r))
    /\ UNCHANGED surprises

\* It failed, or the file has more damage than is filled: the read fails, and the next one
\* there starts over.
ReadFails(r) ==
    /\ Needs(r)
    /\ \E w \in {Opened(r)} :
         /\ w.pending[1].stage = "failed" \/ <<r, w.pending[1].seg>> \in Holes
         /\ window' = [window EXCEPT ![r] = Popped(w)]
    /\ Cancel(r, Cut(window[r], Index(r)))
    /\ PutAside(r) /\ current' = [current EXCEPT ![r] = None]
    /\ hedge' = [hedge EXCEPT ![r] = NoHedge]
    /\ reading' = reading \ {r}
    /\ UNCHANGED <<pos, surprises>>

\* It goes on: the read returns what has come in of it, or stays; a slow head is hedged.
Wait(r) ==
    /\ Needs(r)
    /\ \E w \in {Opened(r)} : \E head \in {w.pending[1]} : LET seen == Len(head.data) IN
         /\ Waits(head) \/ head.stage = "running"
         /\ Raced(r).stage # "done"
         /\ window' = [window EXCEPT ![r] = Replace(w, 1, [head EXCEPT !.read = seen])]
         /\ IF seen > Offset(r) THEN Returns(r, seen - Offset(r))
                                ELSE UNCHANGED <<pos, reading>>
         /\ \/ /\ hedge' = [hedge EXCEPT ![r] = IF Raced(r).stage = "failed" THEN NoHedge ELSE Raced(r)]
               /\ UNCHANGED surprises
            \/ /\ Raced(r).stage = "none" /\ Surprise
               /\ hedge' = [hedge EXCEPT ![r] = [seg |-> head.seg, stage |-> "running"]]
    /\ Cancel(r, Cut(window[r], Index(r)))
    /\ PutAside(r) /\ current' = [current EXCEPT ![r] = None]

----------------------------------------------------------------------------
(* Who reads.                                                              *)

StartRead(r) ==
    /\ r \notin reading /\ pos[r] < Length(r)
    /\ reading' = reading \cup {r}
    /\ UNCHANGED <<pos, current, previous, window, hedge, line, strays, surprises>>

Seek(r) ==
    /\ r \notin reading /\ Surprise
    /\ \E s \in DOMAIN Cost[r] : pos' = [pos EXCEPT ![r] = (s - 1) * Units[r]]
    /\ UNCHANGED <<reading, current, previous, window, hedge, line, strays>>

GiveUp(r) ==
    /\ r \in reading /\ Surprise
    /\ reading' = reading \ {r}
    /\ UNCHANGED <<pos, current, previous, window, hedge, line, strays>>

\* The reader is dropped, and another opened.
Reopen(r) ==
    /\ r \notin reading /\ window[r] # Closed(r) /\ Surprise
    /\ pos' = [pos EXCEPT ![r] = 0]
    /\ window' = [window EXCEPT ![r] = Closed(r)]
    /\ current' = [current EXCEPT ![r] = None] /\ previous' = [previous EXCEPT ![r] = 0]
    /\ hedge' = [hedge EXCEPT ![r] = NoHedge]
    /\ Cancel(r, Range(window[r].pending))
    /\ UNCHANGED reading

----------------------------------------------------------------------------
Poll(r) == ReadInHand(r) \/ ReadHead(r) \/ ReadFails(r) \/ Wait(r)

Task(r) ==
    \E i \in DOMAIN window[r].pending :
        Acquire(r, i) \/ Enqueue(r, i) \/ Bypass(r, i) \/ Chunk(r, i) \/ Resend(r, i) \/ End(r, i)

Ends(r) ==
    \/ HedgeEnds(r)
    \/ \E i \in DOMAIN window[r].pending : Acquire(r, i) \/ Bypass(r, i) \/ End(r, i)

Next ==
    \/ \E r \in Readers : Poll(r) \/ Task(r) \/ HedgeEnds(r)
    \/ \E r \in Readers : StartRead(r) \/ Seek(r) \/ GiveUp(r) \/ Reopen(r)
    \/ \E f \in Files : StrayEnds(f)

Spec == Init /\ [][Next]_vars

\* Tasks run and reads are polled when woken; providers answer or time out.  Nobody has to
\* go on reading.
FairSpec == Spec /\ \A r \in Readers : WF_vars(Poll(r) \/ Ends(r))

----------------------------------------------------------------------------
(* Properties.                                                             *)

TypeOK ==
    /\ \A r \in Readers :
         /\ pos[r] \in 0 .. Length(r) /\ reading \subseteq Readers
         /\ current[r] \in [seg : 0 .. Len(Cost[r]), permit : BOOLEAN]
         /\ previous[r] \in 0 .. Len(Cost[r])
         /\ hedge[r].stage \in {"none", "running", "done", "failed"}
    /\ surprises \in 0 .. Surprises

(* A reader's fetches are for the segments from its head on, and what      *)
(* races the head is a request for the head (lib.rs:357, 549-569):         *)
(* through seeks, failures and bodies read before they end, no segment is  *)
(* served as another.                                                      *)
Aligned ==
    \A r \in Readers :
        LET w == window[r] IN
          /\ Len(w.pending) = w.next - w.head
          /\ \A i \in DOMAIN w.pending : w.pending[i].seg = w.head + i - 1
          /\ hedge[r] # NoHedge => w.pending # <<>> /\ hedge[r].seg = w.head

(* Over budget is only the segment a read was blocked on (lib.rs:164-166): *)
(* what is fetched ahead of it never is.                                   *)
AheadIsBudgeted ==
    \A r \in Readers : \A i \in DOMAIN window[r].pending :
        LET fetch == window[r].pending[i] IN
          i > 1 /\ fetch.stage \in {"running", "done"} /\ <<r, fetch.seg>> \notin Holes
              => fetch.permit

(* A reader's segments get their budget in order, so that its head is      *)
(* never starved by those behind it (lib.rs:224-226).                      *)
InOrder ==
    \A r \in Readers : \A i, j \in DOMAIN window[r].pending :
        i < j /\ Waits(window[r].pending[i]) => window[r].pending[j].stage # "queued"
                                               /\ ~window[r].pending[j].permit

(* Budget is handed out in turn, never more than there is, and exceeded    *)
(* for the head alone.                                                     *)
BudgetInTurn == Free \in Nat /\ AheadIsBudgeted /\ InOrder

(* What a read is given before the body is whole is its beginning, each    *)
(* unit once, however often the body was sent again (lib.rs:306-322).      *)
StreamedInOrder ==
    \A r \in Readers : \A i \in DOMAIN window[r].pending :
        LET data == window[r].pending[i].data IN
          Len(data) <= Units[r] /\ \A u \in DOMAIN data : data[u] = u

(* What is served is the right part of the right segment.                  *)
InPlace == Aligned /\ StreamedInOrder

(* Every read returns, even when other readers hold the whole budget and   *)
(* never read on (lib.rs:164-166).                                         *)
ReadsReturn == \A r \in Readers : r \in reading ~> r \notin reading
=============================================================================
