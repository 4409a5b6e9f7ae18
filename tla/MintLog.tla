------------------------------- MODULE MintLog -------------------------------
(***************************************************************************)
(* The log of one mint: mintCredential writes its lines to Redis, and when   *)
(* the POST has answered, the mint form opens an EventSource on the stream   *)
(* GET /api/issuer/credentials/mint-log, which replays them.  A browser      *)
(* opens a lost EventSource again.  The channel the lines are published on   *)
(* has no subscriber while the mint runs: only the answer of the POST names  *)
(* the job.  Lines are numbered; the last one is SEALED.                    *)
(***************************************************************************)
EXTENDS Naturals, Sequences

CONSTANTS
  LastLine,   \* how many lines a mint that succeeds writes
  Stream,     \* requests for the stream, one after another
  LogFaults   \* do calls to Redis fail, and connections break?

ASSUME LogAssumption ==
  LastLine \in Nat \ {0} /\ Stream \subseteq Nat \ {0} /\ LogFaults \in BOOLEAN

VARIABLES
  job,      \* running, returned (the POST answered with the job) or failed
  line,     \* the line publishMintLog is at
  call,     \* its next Redis command
  history,  \* the list of lines in Redis
  expires,  \* whether its key has been given a time to live
  stream,   \* the server's side of each request
  source,   \* the stream the form is connected to, or 0
  sealed,   \* the form was told it is done, and has closed its EventSource
  shown     \* the lines the form shows, each with the stream it came from

lvars == <<job, line, call, history, expires, stream, source, sealed, shown>>

NewStream == [at |-> "new", wire |-> <<>>, gone |-> FALSE, aborted |-> FALSE,
              failed |-> FALSE, subscriber |-> "none"]
Done      == LastLine + 1   \* `event: done`
Message   == 1 .. Done

LTypeOK ==
  /\ job \in {"running", "returned", "failed"}
  /\ line \in 1 .. LastLine /\ call \in {"rpush", "expire", "publish"}
  /\ history \in Seq(1 .. LastLine)
  /\ expires \in BOOLEAN /\ (history = <<>> => ~expires)
  /\ stream \in [Stream -> [at : {"new", "history", "subscribe", "listening", "errored", "closed"},
                            wire : Seq(Message), gone : BOOLEAN, aborted : BOOLEAN,
                            failed : BOOLEAN, subscriber : {"none", "open", "quit"}]]
  /\ source \in Stream \cup {0} /\ sealed \in BOOLEAN
  /\ shown \in Seq(Stream \X (1 .. LastLine))

LInit ==
  /\ job = "running" /\ line = 1 /\ call = "rpush"
  /\ history = <<>> /\ expires = FALSE
  /\ stream = [s \in Stream |-> NewStream]
  /\ source = 0 /\ sealed = FALSE /\ shown = <<>>
-----------------------------------------------------------------------------
(* publishMintLog, three awaited commands, for one line after another.      *)
RpushFront ==   \* mutant: lpush
  /\ job = "running" /\ call = "rpush" /\ call' = "expire"
  /\ history' = <<line>> \o history
  /\ UNCHANGED <<job, line, expires, stream, source, sealed, shown>>

Rpush ==
  /\ job = "running" /\ call = "rpush" /\ call' = "expire"
  /\ history' = Append(history, line)
  /\ UNCHANGED <<job, line, expires, stream, source, sealed, shown>>

SetExpiry ==
  /\ job = "running" /\ call = "expire" /\ call' = "publish"
  /\ expires' = (history # <<>>)
  /\ UNCHANGED <<job, line, history, stream, source, sealed, shown>>

Publish ==
  /\ job = "running" /\ call = "publish" /\ call' = "rpush"
  /\ IF line = LastLine THEN job' = "returned" /\ UNCHANGED line
                        ELSE line' = line + 1 /\ UNCHANGED job
  /\ UNCHANGED <<history, expires, stream, source, sealed, shown>>

(* Any step of the mint throws, a command of the log included.  The form     *)
(* shows the error of the POST and opens nothing.                           *)
JobFails ==
  /\ LogFaults /\ job = "running" /\ job' = "failed"
  /\ UNCHANGED <<line, call, history, expires, stream, source, sealed, shown>>

(* Five minutes without a new line.                                         *)
Elapse ==
  /\ expires /\ history' = <<>> /\ expires' = FALSE
  /\ UNCHANGED <<job, line, call, stream, source, sealed, shown>>
-----------------------------------------------------------------------------
(* The EventSource connects, the first time or again; GET creates the       *)
(* subscriber's connection before the stream starts.                        *)
Connect(s) ==
  /\ job = "returned" /\ source = 0 /\ ~sealed /\ stream[s].at = "new"
  /\ \A q \in Stream : q < s => stream[q].at # "new"
  /\ stream' = [stream EXCEPT ![s].at = "history", ![s].subscriber = "open"]
  /\ source' = s
  /\ UNCHANGED <<job, line, call, history, expires, sealed, shown>>

WithDone(h) == IF h # <<>> /\ h[Len(h)] = LastLine THEN Append(h, Done) ELSE h

(* start, step 1: replay.  A failing lrange is ignored.                     *)
Replay(s) ==
  /\ stream[s].at = "history"
  /\ \/ stream' = [stream EXCEPT ![s].at = "subscribe", ![s].wire = WithDone(history)]
     \/ LogFaults /\ stream' = [stream EXCEPT ![s].at = "subscribe", ![s].failed = TRUE]
  /\ UNCHANGED <<job, line, call, history, expires, source, sealed, shown>>

(* Step 2: subscribe, and only then the listener for the client's abort.    *)
Subscribe(s) ==
  /\ stream[s].at = "subscribe"
  /\ \/ stream' = [stream EXCEPT ![s].at = "listening"]
     \/ LogFaults /\ stream' = [stream EXCEPT ![s].at = "errored"]
  /\ UNCHANGED <<job, line, call, history, expires, source, sealed, shown>>

(* The request's signal fires once, when the server sees the client gone.   *)
(* A listener that is registered runs cleanup; one that is not, never does.  *)
Abort(s) ==
  /\ stream[s].gone /\ ~stream[s].aborted
  /\ stream' = [stream EXCEPT ![s].aborted = TRUE,
                              ![s].at = IF @ = "listening" THEN "closed" ELSE @,
                              ![s].subscriber = IF stream[s].at = "listening" THEN "quit" ELSE @]
  /\ UNCHANGED <<job, line, call, history, expires, source, sealed, shown>>
-----------------------------------------------------------------------------
(* onmessage and the done event of the form.                                *)
Receive ==
  /\ source # 0 /\ stream[source].wire # <<>>
  /\ LET m == Head(stream[source].wire)
     IN /\ \/ m # Done /\ shown' = Append(shown, <<source, m>>) /\ UNCHANGED <<sealed, source>>
           \/ m = Done /\ sealed' = TRUE /\ source' = 0 /\ UNCHANGED shown
        /\ stream' = [stream EXCEPT ![source].wire = Tail(@), ![source].gone = (m = Done)]
  /\ UNCHANGED <<job, line, call, history, expires>>

(* The connection breaks, or ends because start threw.                      *)
Disconnect ==
  /\ source # 0
  /\ LogFaults \/ stream[source].at = "errored"
  /\ source' = 0
  /\ stream' = [stream EXCEPT ![source].wire = <<>>, ![source].gone = TRUE]
  /\ UNCHANGED <<job, line, call, history, expires, sealed, shown>>

Log  == Rpush \/ SetExpiry \/ Publish \/ JobFails \/ Elapse
Form == Receive \/ Disconnect

LNext == Log \/ Form \/ \E s \in Stream : Connect(s) \/ Replay(s) \/ Subscribe(s) \/ Abort(s)

LSpec == LInit /\ [][LNext]_lvars
-----------------------------------------------------------------------------
(* What one connection shows is a run of the log, in order and without a     *)
(* gap, and the form is told it is done right after SEALED, although the     *)
(* list may expire between two lines (mint-log/route.ts:26-36,               *)
(* MintForm.tsx:45-56).  The form appends, so after a broken connection its  *)
(* lines come again: a later connection begins with the very line the first  *)
(* began with, never in the middle of what the form has shown, nor with an   *)
(* earlier line.  "The mint log EventSource opens after the synchronous mint *)
(* POST completes, so the client misses the done event"                      *)
(* (REMAINING_TASKS.md:28) is over: a form still waits on an open stream     *)
(* only when the list could not be read or had expired.                     *)
ShownIsARun ==
  /\ \A i \in 1 .. Len(shown) - 1 :
       /\ shown[i][1] = shown[i + 1][1] => shown[i + 1][2] = shown[i][2] + 1
       /\ shown[i][1] # shown[i + 1][1] =>
            shown[i][1] < shown[i + 1][1] /\ shown[i + 1][2] = shown[1][2]
  /\ sealed => shown # <<>> /\ shown[Len(shown)][2] = LastLine
  /\ source # 0 /\ stream[source].at = "listening" /\ stream[source].wire = <<>>
       => history = <<>> \/ stream[source].failed

(* "Callers must quit() it when done" (lib/redis.ts:14), of the connection    *)
(* that a subscriber holds: when a stream listens and its client is known to   *)
(* have gone, the subscriber has been told to quit.                         *)
SubscribersAreQuit ==
  \A s \in Stream :
    stream[s].at = "listening" /\ stream[s].aborted => stream[s].subscriber = "quit"
=============================================================================
