------------------------------ MODULE Traffic ------------------------------
(***************************************************************************)
(* The daily traffic ledger of the server (traffic.go): bytes are counted  *)
(* without a lock, sampled every minute into the bucket of the day, kept   *)
(* for a number of days and saved to two files, one for the totals and one *)
(* for the history of each client.  The bytes of a client come from its    *)
(* sessions, which come and go between two samples (sampleClientTraffic,   *)
(* destroySessionLocked).                                                  *)
(*                                                                         *)
(* Up and down are counted alike: one number stands for both.  The trend   *)
(* rings, which are never saved, are left out.  A file write succeeds or   *)
(* leaves the old file (writeFileAtomic renames); a crash between the two  *)
(* writes of a flush is a second write that fails, then a crash.           *)
(***************************************************************************)
EXTENDS Naturals, FiniteSets, FiniteSetsExt

CONSTANTS
    Clients,
    Sessions,   \* identities of session objects, reused once nothing refers to them
    Paths,      \* the values of traffic_file
    Retention,  \* the values of traffic_days
    Damaged,    \* the files an operator or the disk may damage: "total", "clients"
    MaxBytes,   \* bound: bytes carried in all
    MaxDay      \* bound: days that pass

VARIABLES
    day,        \* the date
    up,         \* the process's byte counter
    last,       \* its value at the last flush
    ledger,     \* [today, days]: t.today and t.buckets, a bucket per recorded day
    history,    \* t.clientBuckets: the buckets of each client per recorded day
    saved,      \* [total, clients]: what was last written, to skip equal writes
    conf,       \* [file, days]
    disk,       \* per path: [total, clients], each a file's content or NoFile
    session,    \* the session objects: [state, id, rx, last]
    \* history variables:
    carried,    \* bytes each client's sessions have carried, ever
    gone,       \* [total, clients]: bytes of the days that were trimmed
    durable,    \* [total, clients]: carried when the file was last brought up to date
    excused     \* [total, clients]: what the ledger may lack

vars == <<day, up, last, ledger, history, saved, conf, disk, session,
          carried, gone, durable, excused>>

NoFile == [none |-> TRUE]

Zero == [c \in Clients |-> 0]

Plus(f, g) == [c \in Clients |-> f[c] + g[c]]

Less(f, g) == [c \in Clients |-> f[c] - g[c]]

SumOf(f) == MapThenSumSet(LAMBDA x : f[x], DOMAIN f)

\* The sum of per-client buckets over their days.
Total(h) == [c \in Clients |-> MapThenSumSet(LAMBDA d : h[d][c], DOMAIN h)]

Keep(f, keys) == [d \in DOMAIN f \cap keys |-> f[d]]

Latest(days, n) == {d \in days : Cardinality({e \in days : e > d}) < n}

NoSession == [state |-> "free", id |-> CHOOSE c \in Clients : TRUE, rx |-> 0, last |-> 0]

EmptyLedger == [today |-> 0, days |-> <<>>]

Init ==
    /\ day = 1 /\ up = 0 /\ last = 0
    /\ ledger = EmptyLedger /\ history = <<>>
    /\ saved = [total |-> NoFile, clients |-> NoFile]
    /\ conf \in [file : Paths, days : Retention]
    /\ disk = [p \in Paths |-> [total |-> NoFile, clients |-> NoFile]]
    /\ session = [s \in Sessions |-> NoSession]
    /\ carried = Zero
    /\ gone = [total |-> 0, clients |-> Zero]
    /\ durable = [total |-> 0, clients |-> Zero]
    /\ excused = [total |-> 0, clients |-> Zero]

memory == <<up, last, ledger, history, saved>>
ghost == <<gone, durable, excused>>

NextDay ==
    /\ day < MaxDay /\ day' = day + 1
    /\ UNCHANGED <<memory, conf, disk, session, carried, ghost>>

(***************************************************************************)
(* Sessions.  A retired one waits for its final sample; its handlers may   *)
(* still be counting bytes then and after it.                              *)
(***************************************************************************)
Create(s, c) ==
    /\ session[s].state = "free"
    /\ \A t \in Sessions : ~(session[t].state = "active" /\ session[t].id = c)
    /\ session' = [session EXCEPT ![s] = [NoSession EXCEPT !.state = "active", !.id = c]]
    /\ UNCHANGED <<day, memory, conf, disk, carried, ghost>>

\* destroySessionLocked puts the session on retiredTraffic.
Retire(s) ==
    /\ session[s].state = "active"
    /\ session' = [session EXCEPT ![s].state = "retired"]
    /\ UNCHANGED <<day, memory, conf, disk, carried, ghost>>

\* Bytes after the final sample reach the totals but no client.
Carry(s) ==
    LET c == session[s].id
    IN  /\ session[s].state # "free" /\ SumOf(carried) < MaxBytes
        /\ session' = IF session[s].state = "sampled" THEN session
                      ELSE [session EXCEPT ![s].rx = @ + 1]
        /\ up' = up + 1
        /\ carried' = [carried EXCEPT ![c] = @ + 1]
        /\ excused' = IF session[s].state = "sampled"
                      THEN [excused EXCEPT !.clients[c] = @ + 1] ELSE excused
        /\ UNCHANGED <<day, last, ledger, history, saved, conf, disk, gone, durable>>

\* The last handler of a session returns: the object is garbage.
Release(s) ==
    /\ session[s].state = "sampled"
    /\ session' = [session EXCEPT ![s] = NoSession]
    /\ UNCHANGED <<day, memory, conf, disk, carried, ghost>>

(***************************************************************************)
(* sampleClientTraffic: the bytes of each client since its last sample.    *)
(***************************************************************************)
Sampled(s) == session[s].state \in {"active", "retired"}

Unsampled ==
    [c \in Clients |-> MapThenSumSet(LAMBDA s : session[s].rx - session[s].last,
                                     {s \in Sessions : Sampled(s) /\ session[s].id = c})]

\* Mutant: retiredTraffic is not emptied; its baseline is gone all the same.
SessionsSampledAgain ==
    [s \in Sessions |-> CASE session[s].state = "active" -> [session[s] EXCEPT !.last = session[s].rx]
                          [] session[s].state = "retired" -> [session[s] EXCEPT !.last = 0]
                          [] OTHER -> session[s]]

SessionsSampled ==
    [s \in Sessions |-> CASE session[s].state = "active" -> [session[s] EXCEPT !.last = session[s].rx]
                          [] session[s].state = "retired" -> [NoSession EXCEPT !.state = "sampled",
                                                                               !.id = session[s].id]
                          [] OTHER -> session[s]]

\* sampleClientsLocked: a day gets its buckets with the first byte.
WithSample(h) ==
    IF Unsampled = Zero THEN h
    ELSE [d \in DOMAIN h \cup {day} |->
             Plus(IF d \in DOMAIN h THEN h[d] ELSE Zero, IF d = day THEN Unsampled ELSE Zero)]

(***************************************************************************)
(* trimLocked counts recorded days.  The clients' history is looked at     *)
(* only when the totals had a day too many.                                *)
(***************************************************************************)
TrimDays(b, n) == Keep(b, Latest(DOMAIN b, n))

TrimHistory(b, h, n) ==
    IF Cardinality(DOMAIN b) <= n THEN h ELSE Keep(h, Latest(DOMAIN h, n))

Trimmed(g, b, h, n) ==
    [total |-> g.total + SumOf(b) - SumOf(TrimDays(b, n)),
     clients |-> Plus(g.clients, Less(Total(h), Total(TrimHistory(b, h, n))))]

\* Mutant: the first flush of a day adds the whole counter.
DaysFlushedTwice ==
    [d \in DOMAIN ledger.days \cup {day} |->
        (IF d \in DOMAIN ledger.days THEN ledger.days[d] ELSE 0)
        + (IF d = day THEN (IF day # ledger.today THEN up ELSE up - last) ELSE 0)]

\* The bucket of a day is made at its first flush; a restored day may lack one.
DaysFlushed ==
    IF up = last /\ day = ledger.today THEN ledger.days
    ELSE [d \in DOMAIN ledger.days \cup {day} |->
             (IF d \in DOMAIN ledger.days THEN ledger.days[d] ELSE 0)
             + (IF d = day THEN up - last ELSE 0)]

\* saveLocked: a file is written when its content is not what was last written.
Writes(ok, file, content) == file \in ok /\ content # saved[file]

Flush(ok) ==
    LET b == DaysFlushed
        h == WithSample(history)
        led == [today |-> day, days |-> TrimDays(b, conf.days)]
        hist == [today |-> day, days |-> TrimHistory(b, h, conf.days)]
        g == Trimmed(gone, b, h, conf.days)
        newTotal == Writes(ok, "total", led)
        newClients == Writes(ok, "clients", hist) /\ DOMAIN hist.days # {}
    IN  /\ last' = up
        /\ ledger' = led /\ history' = hist.days /\ gone' = g
        /\ session' = SessionsSampled
        /\ saved' = [total |-> IF newTotal THEN led ELSE saved.total,
                     clients |-> IF newClients THEN hist ELSE saved.clients]
        /\ disk' = [disk EXCEPT ![conf.file] =
                      [total |-> IF newTotal THEN [data |-> led, gone |-> g.total] ELSE @.total,
                       clients |-> IF newClients THEN [data |-> hist, gone |-> g.clients]
                                   ELSE @.clients]]
        /\ durable' = [total |-> IF "total" \in ok THEN SumOf(carried) ELSE durable.total,
                       clients |-> IF "clients" \in ok THEN carried ELSE durable.clients]
        /\ UNCHANGED <<day, up, conf, carried, excused>>

\* ClientSnapshot: the panel's request samples the clients on its own.
ClientSnapshot ==
    /\ history' = WithSample(history)
    /\ session' = SessionsSampled
    /\ UNCHANGED <<day, up, last, ledger, saved, conf, disk, carried, ghost>>

\* OnConfig on a running process.
OnConfig(p, n) ==
    /\ conf' = [file |-> p, days |-> n] /\ conf' # conf
    /\ ledger' = [ledger EXCEPT !.days = TrimDays(@, n)]
    /\ history' = TrimHistory(ledger.days, history, n)
    /\ gone' = Trimmed(gone, ledger.days, history, n)
    /\ UNCHANGED <<day, up, last, saved, disk, session, carried, durable, excused>>

(***************************************************************************)
(* A crash, and the next process's first OnConfig: loadLocked returns      *)
(* before the clients' file when there are no totals to read.              *)
(***************************************************************************)
Readable(f) == f # NoFile

Restart(damage) ==
    LET old == disk[conf.file]
        f == [total |-> IF "total" \in damage THEN NoFile ELSE old.total,
              clients |-> IF "clients" \in damage THEN NoFile ELSE old.clients]
        led == IF Readable(f.total) THEN f.total.data ELSE EmptyLedger
        loads == Readable(f.total) /\ Readable(f.clients)
        hist == IF loads THEN f.clients.data.days ELSE <<>>
        g == [total |-> IF Readable(f.total) THEN f.total.gone ELSE 0,
              clients |-> IF loads THEN f.clients.gone ELSE Zero]
    IN  /\ up' = 0 /\ last' = 0
        /\ session' = [s \in Sessions |-> NoSession]
        /\ ledger' = [led EXCEPT !.days = TrimDays(@, conf.days)]
        /\ history' = TrimHistory(led.days, hist, conf.days)
        /\ gone' = Trimmed(g, led.days, hist, conf.days)
        /\ saved' = [total |-> IF Readable(f.total) THEN f.total.data ELSE NoFile,
                     clients |-> IF loads THEN f.clients.data ELSE NoFile]
        /\ disk' = [disk EXCEPT ![conf.file] = f]
        /\ excused' = [total |-> IF "total" \in damage THEN SumOf(carried)
                                 ELSE excused.total + SumOf(carried) - durable.total,
                       clients |-> IF "clients" \in damage \/ ~Readable(f.total)
                                   THEN carried ELSE Plus(excused.clients, Less(carried, durable.clients))]
        /\ durable' = [total |-> SumOf(carried), clients |-> carried]
        /\ UNCHANGED <<day, conf, carried>>

Next ==
    \/ NextDay
    \/ \E s \in Sessions : Retire(s) \/ Carry(s) \/ Release(s) \/ \E c \in Clients : Create(s, c)
    \/ \E ok \in SUBSET {"total", "clients"} : Flush(ok)
    \/ ClientSnapshot
    \/ \E p \in Paths, n \in Retention : OnConfig(p, n)
    \/ \E damage \in SUBSET Damaged : Restart(damage)

Spec == Init /\ [][Next]_vars

-----------------------------------------------------------------------------
(***************************************************************************)
(* "A power failure loses at most the last period" and nothing is counted  *)
(* twice (flush, loadLocked, saveLocked): the recorded days, those already *)
(* trimmed and the bytes not yet sampled add up to the bytes carried, less *)
(* what each crash found in memory only.                                   *)
(***************************************************************************)
TotalsWithinOnePeriod ==
    LET have == SumOf(ledger.days) + gone.total + (up - last)
    IN  have <= SumOf(carried) /\ SumOf(carried) <= have + excused.total

(***************************************************************************)
(* The same for the history of each client (sampleClientTraffic): a client *)
(* whose session is destroyed and replaced between two samples, or while a *)
(* panel request samples, neither loses bytes nor has them counted again.  *)
(* Lost are only what a handler counts after its session's final sample    *)
(* and, when the totals cannot be read at start, the whole history.        *)
(***************************************************************************)
ClientsWithinOnePeriod ==
    LET have == Plus(Plus(Total(history), gone.clients), Unsampled)
    IN  \A c \in Clients : have[c] <= carried[c] /\ carried[c] <= have[c] + excused.clients[c]

(***************************************************************************)
(* "per-client history: same directory, same retention" (OnConfig): no day *)
(* is kept for a client whose total was trimmed.                           *)
(***************************************************************************)
SameRetention ==
    ledger.today = day => DOMAIN history \subseteq DOMAIN ledger.days \cup {day}

(***************************************************************************)
(* "hot change: the next sample goes to the new path" (OnConfig): after a  *)
(* flush the configured file holds the totals.                             *)
(***************************************************************************)
NextSampleUsesNewPath ==
    [][Flush({"total", "clients"}) => disk'[conf.file].total # NoFile]_vars
=============================================================================
