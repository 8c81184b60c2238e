---------------------------- MODULE RecorderDownload ----------------------------
(***************************************************************************)
(* Reading the flight recorder while it records (src/src/recorder.cpp,     *)
(* web_ui.cpp): read() and seqAt(), the raw and the text download of the   *)
(* web page, and the times tools/decode_recorder.py gives a raw file's     *)
(* records.  The loop task answers the request and then sends a chunk per  *)
(* pass; the other tasks put records between any two of its looks at the   *)
(* ring, and the page may freeze and arm the ring while a download runs.   *)
(*                                                                         *)
(* A look at a record and fullTime()'s look at its epoch are one step: the *)
(* record is a copy, and the answer is the same as long as its epoch is    *)
(* remembered.  Pacing, the socket and the file's layout are left out: a   *)
(* chunk is one read(), and a download may be cut short at any time.       *)
(***************************************************************************)
EXTENDS Recorder

CONSTANTS
    Sinces, Maxes,      \* the raw requests' arguments
    Windows,            \* the text requests': the last so much time
    RECS_PER_READ,
    MaxDownloads

ASSUME DownloadAssumption ==
    /\ RECS_PER_READ \in Nat \ {0} /\ MaxDownloads \in Nat
    /\ Sinces \subseteq Nat /\ Maxes \subseteq Nat /\ Windows \subseteq Nat

VARIABLES
    web,        \* where the loop task is in a request
    st,         \* the request: what status() told, and its argument
    search,     \* seqAt()
    dl,         \* mode: s_active and s_text; s_header, s_next, s_end; from: where it began
    out,        \* what it has sent
    downloads   \* how many there were

webVars == <<web, st, search, dl, out, downloads>>
allVars == <<vars, webVars>>

AtLeast(a, b) == IF a < b THEN b ELSE a
AtMost(a, b) == IF a > b THEN b ELSE a

\* fullTime() of the record held as number s.
FullTime(s) == HighFor(s) * WRAP + ring[s % Capacity].t

\* read(from, max): where the copy starts, and the number after its last record.
ReadStart(from) == AtLeast(from, AtLeast(Oldest, 1))
ReadNext(from, max) == AtMost(ReadStart(from) + max, seq + 1)
Copied(a, b) == [i \in 1 .. b - a |-> ring[(a + i - 1) % Capacity]]

Idle == [mode |-> "none", first |-> 0, firstUs |-> 0, from |-> 1, next |-> 1, end |-> 1]
NoSearch == [lo |-> 1, hi |-> 0, found |-> 0, us |-> 0]

DownloadInit ==
    /\ Init
    /\ web = "idle" /\ st = [oldest |-> 0, seq |-> 0, arg |-> 0] /\ search = NoSearch
    /\ dl = Idle /\ out = <<>> /\ downloads = 0

-------------------------------------------------------------------------------
(* The requests.                                                           *)

\* One download at a time: another request is refused.
Allowed == dl.mode = "none"

Request(kind, arg) ==
    /\ web = "idle" /\ pc = "idle" /\ Allowed /\ downloads < MaxDownloads
    /\ web' = kind /\ downloads' = downloads + 1
    /\ st' = [oldest |-> Oldest, seq |-> seq, arg |-> arg]

\* dlStart()
Start(mode, first, firstUs, next, end) ==
    /\ dl' = [mode |-> mode, first |-> first, firstUs |-> firstUs, from |-> next, next |-> next,
              end |-> end]
    /\ out' = <<>>
    /\ web' = "idle"

RawRequest(since) ==
    /\ Request("raw", since)
    /\ UNCHANGED <<vars, search, dl, out>>

\* The first record is read for the header, wherever the ring has moved to.
RawHeader(max) ==
    LET from0 == AtMost(AtLeast(st.arg, st.oldest), st.seq + 1)
        end   == AtMost(st.seq + 1, from0 + max)
        from  == IF from0 < end THEN ReadNext(from0, 1) - 1 ELSE from0
    IN /\ web = "raw"
       /\ Start("raw", from, IF from0 < end THEN FullTime(from) ELSE 0, from, end)
       /\ UNCHANGED <<vars, st, search, downloads>>

\* "While frozen, the last n seconds are the ones before it froze."
WindowStart(window) ==
    AtLeast((IF frozen = "yes" THEN freezeUs ELSE now) - window, 0)

TextRequest(window) ==
    /\ Request("text", WindowStart(window))
    /\ UNCHANGED <<vars, search, dl, out>>

SearchBegin ==
    /\ web = "text"
    /\ web' = "search"
    /\ search' = [lo |-> Oldest, hi |-> seq, found |-> Oldest - 1, us |-> st.arg]
    /\ UNCHANGED <<vars, st, dl, out, downloads>>

\* A record overwritten meanwhile: read() copied the oldest and names the one after it.
LoAfterMiss == ReadNext(0, 1)
Before(mid) == FullTime(mid) < search.us
NotAfter(mid) == FullTime(mid) <= search.us

SearchTurn ==
    LET mid == search.lo + (search.hi - search.lo) \div 2
    IN /\ web = "search" /\ search.lo <= search.hi
       /\ search' =
            IF mid < Oldest THEN [search EXCEPT !.lo = LoAfterMiss]
            ELSE IF NotAfter(mid)
            THEN [search EXCEPT !.found = mid, !.lo = mid + 1]
            ELSE [search EXCEPT !.hi = mid - 1]
       /\ UNCHANGED <<vars, web, st, dl, out, downloads>>

TextStart ==
    /\ web = "search" /\ search.lo > search.hi
    /\ Start("text", 0, 0, AtLeast(search.found + 1, st.oldest), st.seq + 1)
    /\ UNCHANGED <<vars, st, search, downloads>>

-------------------------------------------------------------------------------
(* dlPump(), once per pass of the loop task.                               *)

\* As many as the buffer has room for, which depends on the lines before.
Want == 1 .. AtMost(RECS_PER_READ, dl.end - dl.next)

\* dlFillRaw(): a copy that started later, the records having been overwritten, may run
\* past the end.
CopyEndUntrimmed(after) == after
CopyEnd(after) == AtMost(after, dl.end)

FillRaw(want) ==
    LET first == ReadStart(dl.next)
        after == CopyEnd(ReadNext(dl.next, want))
    IN /\ dl.mode = "raw"
       /\ out' = out \o Copied(first, after)
       /\ dl' = [dl EXCEPT !.next = after]

Line(s) == [lost |-> 0, rec |-> ring[s % Capacity], us |-> FullTime(s)]
LostLineNever(n) == <<>>
LostLine(n) == IF n > 0 THEN <<[lost |-> n]>> ELSE <<>>

LinesShort(first, after) == AtLeast(AtMost(after, dl.end - 1), first) - first
Lines(first, after) == AtLeast(AtMost(after, dl.end), first) - first

\* dlFillText()
FillText(want) ==
    LET first == ReadStart(dl.next)
        after == ReadNext(dl.next, want)
    IN /\ dl.mode = "text"
       /\ out' = out \o LostLine(first - dl.next) \o [i \in 1 .. Lines(first, after) |-> Line(first + i - 1)]
       /\ dl' = [dl EXCEPT !.next = after]

Pump ==
    /\ web = "idle" /\ pc = "idle" /\ dl.mode # "none" /\ dl.next < dl.end
    /\ \E want \in Want : FillRaw(want) \/ FillText(want)
    /\ UNCHANGED <<vars, web, st, search, downloads>>

\* The closing chunk, a client gone, or the download's time limit.
DownloadEnd ==
    /\ web = "idle" /\ pc = "idle" /\ dl.mode # "none"
    /\ dl' = Idle /\ out' = <<>>
    /\ st' = [st EXCEPT !.oldest = 0, !.seq = 0, !.arg = 0] /\ search' = NoSearch
    /\ UNCHANGED <<vars, web, downloads>>

-------------------------------------------------------------------------------
RecorderStep ==
    /\ AnyTask \/ TimePasses \/ (web = "idle" /\ LoopTask)
    /\ UNCHANGED webVars

DownloadNext ==
    \/ RecorderStep
    \/ \E since \in Sinces : RawRequest(since)
    \/ \E max \in Maxes : RawHeader(max)
    \/ \E window \in Windows : TextRequest(window)
    \/ SearchBegin \/ SearchTurn \/ TextStart
    \/ Pump \/ DownloadEnd

DownloadSpec == DownloadInit /\ [][DownloadNext]_allVars

-------------------------------------------------------------------------------
(* full_times() of tools/decode_recorder.py.                               *)

\* The high half of record i's time, from that of the record before it.
HighAfter(h, i) ==
    CASE out[i].kind = "BOOT" -> 0
      [] out[i].kind \in {"TIME", "FREEZE", "ARM"} -> out[i].high
      [] out[i].kind = "EVENT" -> IF i > 1 /\ out[i].t < out[i - 1].t THEN h + 1 ELSE h

HighAt[i \in 0 .. Len(out)] ==
    IF i = 0 THEN dl.firstUs \div WRAP ELSE HighAfter(HighAt[i - 1], i)

Decoded == [i \in 1 .. Len(out) |-> HighAt[i] * WRAP + out[i].t]

-------------------------------------------------------------------------------
(* Properties.                                                             *)

Raw == dl.mode = "raw"
Text == dl.mode = "text"
TimeOf(s) == log[s].at

\* Every variable of the download has its type.
DownloadTypeOK ==
    /\ web \in {"idle", "raw", "text", "search"}
    /\ st.oldest <= st.seq /\ st.seq <= seq /\ st.arg \in Nat
    /\ {search.lo, search.hi, search.found, search.us} \subseteq Nat
    /\ {dl.from, dl.next, dl.end, dl.firstUs} \subseteq Nat /\ dl.end <= seq + 1

\* A raw file holds, each once, in order and as stored, the records from its first to
\* where it has come, except those overwritten before they could be sent, and none after
\* its end: downloads never mix (web_ui.cpp:1742-1770).
RawWhole ==
    Raw => /\ \A i \in 1 .. Len(out) :
                /\ out[i] = Stored(out[i].seq)
                /\ out[i].seq \in dl.from .. dl.end - 1
                /\ i > 1 => out[i - 1].seq < out[i].seq
           /\ \A s \in dl.from .. dl.next - 1 :
                s >= Oldest => \E i \in 1 .. Len(out) : out[i].seq = s

\* A raw file's records get their times back (recorder.h:33-36): from a record the
\* decoder anchors on every later one has its own time, whatever is missing between them,
\* as long as no gap since the anchor is as long as the clock's low half; TIME and ARM
\* records come often enough where there is none.  The file's first record is an anchor
\* if the header is about it, or about one of the same high half: it need not be, since
\* the first chunk is read later than the header, and the records between may be gone.
Anchors(i) ==
    \/ out[i].kind \in {"BOOT", "TIME", "FREEZE", "ARM"}
    \/ i = 1 /\ (out[i].seq = dl.first \/ dl.firstUs \div WRAP = TimeOf(out[i].seq) \div WRAP)

GapShort(i) ==
    out[i].seq # out[i - 1].seq + 1 => TimeOf(out[i].seq) - TimeOf(out[i - 1].seq) < WRAP

AnchorBefore(i) == \E k \in 1 .. i : Anchors(k) /\ \A j \in k + 1 .. i : GapShort(j)

TimesDecoded ==
    Raw => \A i \in 1 .. Len(out) : AnchorBefore(i) => Decoded[i] = TimeOf(out[i].seq)

\* A text download's lines are records as stored, with their times, in order; it misses
\* no record of its window that is still held, and marks every gap, one before the first
\* line included, with the number of records lost, however the ring moved under seqAt() and read().
TextTrue ==
    Text =>
        /\ \A s \in 1 .. dl.next - 1 :
              (s < dl.end /\ s >= Oldest /\ TimeOf(s) > st.arg) =>
                 \E i \in 1 .. Len(out) : out[i].lost = 0 /\ out[i].rec.seq = s
        /\ \A i \in 1 .. Len(out) :
              /\ out[i].lost = 0 => out[i].rec = Stored(out[i].rec.seq) /\ out[i].us = TimeOf(out[i].rec.seq)
              /\ (i = 1 /\ out[i].lost = 0) => out[i].rec.seq = dl.from
              /\ (i = 2 /\ out[i].lost = 0 /\ out[i - 1].lost > 0) =>
                    out[i].rec.seq = dl.from + out[i - 1].lost
              /\ (i > 1 /\ out[i].lost = 0 /\ out[i - 1].lost = 0) =>
                    out[i].rec.seq = out[i - 1].rec.seq + 1
              /\ (i > 2 /\ out[i].lost = 0 /\ out[i - 1].lost > 0) =>
                    out[i].rec.seq = out[i - 2].rec.seq + 1 + out[i - 1].lost

\* However the ring moves while seqAt() searches with bounds read before, what it finds
\* is at or before its time if it is still held, and of the records the request began
\* with it misses none at or before its time but the oldest, and that one only if records
\* have been overwritten since.
Found == web = "search" /\ search.lo > search.hi
AtOrBefore == {s \in Oldest .. seq : TimeOf(s) <= search.us}

SearchExact ==
    Found =>
        /\ \A s \in AtOrBefore :
              s <= st.seq => s <= search.found \/ (s = Oldest /\ Oldest > st.oldest)
        /\ search.found >= Oldest => search.found \in AtOrBefore

\* "The newest record at or before clock time us" (recorder.h:157-158), of those held
\* when it returns that it began with.
SearchNewest == Found => \A s \in AtOrBefore : s <= search.hi => s <= search.found
===============================================================================
