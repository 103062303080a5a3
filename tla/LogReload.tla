------------------------------ MODULE LogReload ------------------------------
(***************************************************************************)
(* The hot reload of the log (internal/logx/logx.go: Init; swap.go;        *)
(* rotate.go).  Init builds a new set of handlers around the ring, swaps   *)
(* it in under the loggers that are already handed out, waits for the      *)
(* goroutine that rotates the old file and closes the old writer.  A       *)
(* logger takes the current set and writes to the file and to the ring.    *)
(*                                                                         *)
(* A writer of lumberjack (external) opens its file when it is written to, *)
(* also after it has been closed.  Sets are numbered as they are built.    *)
(***************************************************************************)
EXTENDS LogStream, FiniteSets

CONSTANTS
  Loggers,      \* goroutines that log
  Options,      \* log settings: [file, daily, size] records
  MaxInits,     \* bound: calls of Init
  Casts         \* bound: the goroutines that meet in one behaviour, sets of them

ASSUME ReloadAssumption ==
  /\ Options \subseteq [file : BOOLEAN, daily : BOOLEAN, size : Sizes] /\ Options # {}
  /\ MaxInits \in Nat \ {0}
  /\ Casts # {}

\* The rotation at midnight, as a member of a cast.
Midnight == "midnight"

Handlers == 1 .. MaxInits

NoHandler == 0

VARIABLES
  made,         \* sets of handlers built so far
  options,      \* options[h]: the settings set h was built from
  curr,         \* swapHandler.curr
  open,         \* open[h]: the file of the writer of h is open
  rotation,     \* rotation[h]: the goroutine of dailyRotate
  cancelled,    \* contexts of dailyRotate that are done
  init,         \* the call of Init that holds initMu
  record,       \* record[l]: the record a logger has in hand
  late,         \* history: writers that a record taken before the swap has reopened
  cast          \* who takes part, for ever

streamVars == <<calls, subs, chan, first, sent, missed>>
ringVars == <<buf, size, pushed, streamVars>>
handlerVars == <<made, options, curr>>
writerVars == <<open, rotation, cancelled>>
reloadVars == <<handlerVars, writerVars, init, record, late, cast>>

NoInit   == [by |-> "nobody", at |-> "none", old |-> NoHandler]
NoRecord == [handler |-> NoHandler, at |-> "none"]

\* A first Init, with the settings o, has come back.
ReloadInit(o) ==
  /\ Init
  /\ size = o.size
  /\ made = 1
  /\ options = [h \in Handlers |-> o]
  /\ curr = 1
  /\ open = [h \in Handlers |-> FALSE]
  /\ rotation = [h \in Handlers |-> IF h = 1 /\ o.file /\ o.daily THEN "waits" ELSE "off"]
  /\ cancelled = {}
  /\ init = NoInit
  /\ record = [l \in Loggers |-> NoRecord]
  /\ late = {}
  /\ cast \in Casts

-----------------------------------------------------------------------------
\* Init.

\* The writers that Init has closed.
Shut == 1 .. made \ {curr, made, init.old}

InitAt(by, at) == init.by = by /\ init.at = at

InitNext(at) == init' = [init EXCEPT !.at = at]

\* The new writer, its goroutine, and the ring under the first lock of mu.
InitBegin(by, o) ==
  /\ init = NoInit
  /\ made < MaxInits
  /\ made' = made + 1
  /\ options' = [options EXCEPT ![made + 1] = o]
  /\ rotation' = [rotation EXCEPT ![made + 1] = IF o.file /\ o.daily THEN "waits" ELSE "off"]
  /\ init' = [by |-> by, at |-> "swap", old |-> curr]
  /\ Resize(o.size)
  /\ UNCHANGED <<curr, open, cancelled, record, late, cast>>

InitSwap(by) ==
  /\ InitAt(by, "swap")
  /\ curr' = made
  /\ InitNext("cancel")
  /\ UNCHANGED <<ringVars, made, options, writerVars, record, late, cast>>

InitCancel(by) ==
  /\ InitAt(by, "cancel")
  /\ cancelled' = cancelled \cup {init.old}
  /\ InitNext("close")
  /\ UNCHANGED <<ringVars, handlerVars, open, rotation, record, late, cast>>

\* Mutant of InitClose: it does not wait for dailyRotate.
InitCloseEarly(by) ==
  /\ InitAt(by, "close")
  /\ open' = [open EXCEPT ![init.old] = FALSE]
  /\ init' = NoInit
  /\ UNCHANGED <<ringVars, handlerVars, rotation, cancelled, record, late, cast>>

InitClose(by) ==
  /\ InitAt(by, "close")
  /\ rotation[init.old] = "off"
  /\ open' = [open EXCEPT ![init.old] = FALSE]
  /\ init' = NoInit
  /\ UNCHANGED <<ringVars, handlerVars, rotation, cancelled, record, late, cast>>

-----------------------------------------------------------------------------
\* dailyRotate: at midnight the file is closed and a new one opened.  When the
\* context is done as well, the select takes either.
RotateFire(h) ==
  /\ rotation[h] = "waits"
  /\ rotation' = [rotation EXCEPT ![h] = "fired"]
  /\ UNCHANGED <<ringVars, handlerVars, open, cancelled, init, record, late, cast>>

Rotate(h) ==
  /\ rotation[h] = "fired"
  /\ rotation' = [rotation EXCEPT ![h] = "waits"]
  /\ open' = [open EXCEPT ![h] = TRUE]
  /\ UNCHANGED <<ringVars, handlerVars, cancelled, init, record, late, cast>>

RotateEnd(h) ==
  /\ rotation[h] = "waits"
  /\ h \in cancelled
  /\ rotation' = [rotation EXCEPT ![h] = "off"]
  /\ UNCHANGED <<ringVars, handlerVars, open, cancelled, init, record, late, cast>>

-----------------------------------------------------------------------------
\* derivedHandler.Handle: the current set is taken, and used outside the lock.
Take(l) ==
  /\ record[l] = NoRecord
  /\ record' = [record EXCEPT ![l] = [handler |-> curr, at |-> "file"]]
  /\ UNCHANGED <<ringVars, handlerVars, writerVars, init, late, cast>>

\* fanout.Handle: the file ...
WriteFile(l) ==
  LET h == record[l].handler IN
  /\ record[l].at = "file"
  /\ record' = [record EXCEPT ![l].at = "ring"]
  /\ IF options[h].file
     THEN /\ open' = [open EXCEPT ![h] = TRUE]
          /\ late' = IF h \in Shut THEN late \cup {h} ELSE late
     ELSE UNCHANGED <<open, late>>
  /\ UNCHANGED <<ringVars, handlerVars, rotation, cancelled, init, cast>>

\* ... and then the ring (sinkHandler).
WriteRing(l) ==
  /\ record[l].at = "ring"
  /\ record' = [record EXCEPT ![l] = NoRecord]
  /\ Push
  /\ UNCHANGED <<handlerVars, writerVars, init, late, cast>>

-----------------------------------------------------------------------------
InitStep(by) == InitSwap(by) \/ InitCancel(by) \/ InitClose(by)

StreamStep ==
  /\ \E c \in Clients \cap cast : Subscribe(c) \/ Recent(c) \/ Send(c) \/ Leave(c)
  /\ UNCHANGED reloadVars

LogStep ==
  \/ StreamStep
  \/ Midnight \in cast /\ \E h \in Handlers : RotateFire(h)
  \/ \E h \in Handlers : Rotate(h) \/ RotateEnd(h)
  \/ \E l \in Loggers \cap cast : Take(l) \/ WriteFile(l) \/ WriteRing(l)

-----------------------------------------------------------------------------
\* Properties.

ReloadTypeOK ==
  /\ TypeOK
  /\ made \in Handlers /\ curr \in 1 .. made
  /\ options \in [Handlers -> Options]
  /\ open \in [Handlers -> BOOLEAN]
  /\ rotation \in [Handlers -> {"off", "waits", "fired"}]
  /\ cancelled \subseteq Handlers
  /\ init.at \in {"none", "swap", "cancel", "close"}
  /\ \A l \in Loggers : record[l].at \in {"none", "file", "ring"}
  /\ late \subseteq Shut
  /\ cast \in Casts

\* logx.go:118: a reload leaks no file.  When no Init is under way no writer but
\* the current one has its file open, unless a logger had taken the old one
\* before the swap; the rotation at midnight does not reopen it.
OldWritersClosed ==
  init = NoInit => \A h \in Handlers : open[h] => h = curr \/ h \in late

\* The same without the exception (swap.go:15, two writers never write to the
\* same file).  The code does not keep it.
OneWriter == init = NoInit => \A h \in Handlers : open[h] => h = curr
=============================================================================
