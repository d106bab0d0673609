----------------------------- MODULE NodeProofs -----------------------------
(***************************************************************************)
(* Proofs about parts of MCNode, for every value of their constants.       *)
(***************************************************************************)
EXTENDS MCNode, Sequences, TLAPS

-----------------------------------------------------------------------------
(* The record of an egress.                                                 *)
StoreTodos  == {<<"info", "listed", "told">>, <<"listed", "told">>, <<"told">>}
UpdateTodos == {<<"info", "ended">>, <<"ended">>, <<"info">>}
SweepTodos  == {<<"unlist", "delete", "forget">>, <<"delete", "forget">>, <<"forget">>}
EgTodos == StoreTodos \cup UpdateTodos \cup SweepTodos

EgWork == [op : {"create", "update", "sweep"}, by : {"launcher", "server", "worker"},
           status : {"none", "starting", "active", "ending", "ended"}, todo : EgTodos]
EgSents ==
  [op : {"create"}, by : {"launcher", "server"}, status : {"starting"}]
    \cup [op : {"update"}, by : {"server"}, status : {"active", "ending", "ended"}]

EgTypes ==
  /\ egLimits.creates \subseteq {"launcher", "server"}
  /\ egInfo \in {"none", "starting", "active", "ending", "ended"}
  /\ egServer \in {"none", "starting", "active", "ending", "ended"}
  /\ egListed \in BOOLEAN /\ egEnded \in BOOLEAN /\ egOld \in BOOLEAN
  /\ egCall \in [EgCallers -> {Egress!EgIdle} \cup EgWork]
  /\ egSent \subseteq EgSents
  /\ egStarted \in Nat

(* A call, and what is left of its pipeline.                                *)
EgCallIs(k) ==
  /\ k.op = "create" => k.status = "starting" /\ k.todo \in StoreTodos
  /\ k.op = "update" => /\ k.by = "server" /\ k.status \in {"active", "ending", "ended"}
                        /\ k.todo \in (IF k.status = "ended" THEN {<<"info", "ended">>, <<"ended">>}
                                       ELSE {<<"info">>})
  /\ k.op = "sweep" => k.todo \in SweepTodos /\ egOld
EgCalls == \A c \in EgCallers : EgCallIs(egCall[c])

(* A status is one the server has reached.                                  *)
Reached(s) ==
  /\ s = "starting" => egServer # "none"
  /\ s = "active" => egServer \in {"active", "ending", "ended"}
  /\ s = "ending" => egServer \in {"ending", "ended"}
  /\ s = "ended" => egServer = "ended"
Writes(c) == egCall[c].op \in {"create", "update"}
EgReached ==
  /\ Reached(egInfo)
  /\ \A m \in egSent : Reached(m.status)
  /\ \A c \in EgCallers : Writes(c) => Reached(egCall[c].status)
  /\ egOld => egServer = "ended"
  /\ Egress!RefusalIsTrue

(* One call writes at a time unless one was overtaken, and none once a day  *)
(* has passed unless it came late.                                          *)
EgOrder ==
  /\ "overtaken" \notin egExcused =>
       \A c, d \in EgCallers : Writes(c) /\ Writes(d) => c = d
  /\ egOld /\ "late" \notin egExcused => \A c \in EgCallers : ~Writes(c)

(* A create under way has found no record, and nothing was told before it.  *)
EgTold ==
  egExcused \cap {"overtaken", "late", "cut"} = {} =>
    /\ egStarted <= 1
    /\ egStarted > 0 => egInfo # "none" \/ egOld
    /\ \A c \in EgCallers : egCall[c].op = "create" =>
         /\ egStarted = 0
         /\ IF egCall[c].todo = <<"info", "listed", "told">> THEN egInfo = "none"
                                                            ELSE egInfo # "none"

(* What the server is at is stored, or will be.                             *)
Sent == \E m \in egSent : m.op = "update" /\ m.status = egServer
WillWrite(c) == Writes(c) /\ Head(egCall[c].todo) = "info"
EgNewest ==
  egExcused \cap {"overtaken", "cut", "late", "first"} = {} =>
    /\ \A c \in EgCallers : WillWrite(c) => Sent \/ egCall[c].status = egServer
    /\ \/ Sent
       \/ egInfo = egServer
       \/ egOld /\ egInfo = "none"
       \/ egServer \in {"none", "starting"} /\ egInfo = "none"
       \/ \E c \in EgCallers : WillWrite(c) /\ egCall[c].op = "update"

(* A record is listed, or will be by a create under way.                    *)
EgListing ==
  "first" \notin egExcused /\ "cut" \notin egExcused /\ ~egOld =>
    /\ \A c \in EgCallers : egCall[c].op = "update" => egInfo # "none"
    /\ \A c \in EgCallers : egCall[c].op = "create" /\ egCall[c].todo = <<"told">> => egListed
    /\ egInfo # "none" =>
         \/ egListed
         \/ \E c \in EgCallers : egCall[c].op = "create" /\ egCall[c].todo # <<"told">>

(* The end is noted, or will be; what a sweep has not removed it finds again. *)
EgSwept ==
  "cut" \notin egExcused /\ "late" \notin egExcused =>
    /\ egServer = "ended" /\ ~egOld =>
         \/ egEnded
         \/ \E m \in egSent : m.op = "update" /\ m.status = "ended"
         \/ \E c \in EgCallers : egCall[c].op = "update" /\ egCall[c].status = "ended"
    /\ egOld => egEnded \/ (egInfo = "none" /\ ~egListed)
    /\ \A c \in EgCallers : egCall[c].op = "sweep" =>
         /\ egCall[c].todo # <<"unlist", "delete", "forget">> => ~egListed
         /\ egCall[c].todo = <<"forget">> => egInfo = "none"

EgInv ==
  /\ EgTypes /\ EgCalls /\ EgReached /\ EgOrder /\ EgTold /\ EgNewest /\ EgListing /\ EgSwept

LEMMA EgTodoSteps ==
  \A t \in EgTodos :
    /\ t # <<>>
    /\ Len(t) = 1 <=> t \in {<<"told">>, <<"ended">>, <<"info">>, <<"forget">>}
    /\ t = <<"info", "listed", "told">> => Head(t) = "info" /\ Tail(t) = <<"listed", "told">>
    /\ t = <<"listed", "told">> => Head(t) = "listed" /\ Tail(t) = <<"told">>
    /\ t = <<"told">> => Head(t) = "told"
    /\ t = <<"info", "ended">> => Head(t) = "info" /\ Tail(t) = <<"ended">>
    /\ t = <<"ended">> => Head(t) = "ended"
    /\ t = <<"info">> => Head(t) = "info"
    /\ t = <<"unlist", "delete", "forget">> => Head(t) = "unlist" /\ Tail(t) = <<"delete", "forget">>
    /\ t = <<"delete", "forget">> => Head(t) = "delete" /\ Tail(t) = <<"forget">>
    /\ t = <<"forget">> => Head(t) = "forget"
<1>1. /\ Len(<<"info", "listed", "told">>) = 3 /\ Len(<<"listed", "told">>) = 2
      /\ Len(<<"told">>) = 1 /\ Len(<<"info", "ended">>) = 2 /\ Len(<<"ended">>) = 1
      /\ Len(<<"info">>) = 1 /\ Len(<<"unlist", "delete", "forget">>) = 3
      /\ Len(<<"delete", "forget">>) = 2 /\ Len(<<"forget">>) = 1 /\ Len(<<>>) = 0
  OBVIOUS
<1>2. /\ Tail(<<"info", "listed", "told">>) = <<"listed", "told">>
      /\ Tail(<<"listed", "told">>) = <<"told">> /\ Tail(<<"info", "ended">>) = <<"ended">>
      /\ Tail(<<"unlist", "delete", "forget">>) = <<"delete", "forget">>
      /\ Tail(<<"delete", "forget">>) = <<"forget">>
  OBVIOUS
<1>3. /\ Head(<<"info", "listed", "told">>) = "info" /\ Head(<<"listed", "told">>) = "listed"
      /\ Head(<<"told">>) = "told" /\ Head(<<"info", "ended">>) = "info" /\ Head(<<"ended">>) = "ended"
      /\ Head(<<"info">>) = "info" /\ Head(<<"unlist", "delete", "forget">>) = "unlist"
      /\ Head(<<"delete", "forget">>) = "delete" /\ Head(<<"forget">>) = "forget"
  OBVIOUS
<1>4. TAKE t \in EgTodos
<1>5. t # <<>>
  BY <1>1 DEF EgTodos, StoreTodos, UpdateTodos, SweepTodos
<1>6. Len(t) = 1 => t \in {<<"told">>, <<"ended">>, <<"info">>, <<"forget">>}
  BY <1>1 DEF EgTodos, StoreTodos, UpdateTodos, SweepTodos
<1>7. t \in {<<"told">>, <<"ended">>, <<"info">>, <<"forget">>} => Len(t) = 1
  BY <1>1
<1> QED
  BY <1>2, <1>3, <1>5, <1>6, <1>7

(* The todos of different operations differ.                                *)
LEMMA EgTodosDiffer ==
  /\ <<"info", "listed", "told">> # <<"listed", "told">> /\ <<"info", "listed", "told">> # <<"told">>
  /\ <<"listed", "told">> # <<"told">>
  /\ <<"unlist", "delete", "forget">> # <<"delete", "forget">>
  /\ <<"unlist", "delete", "forget">> # <<"forget">> /\ <<"delete", "forget">> # <<"forget">>
  /\ <<"info", "ended">> # <<"ended">> /\ <<"info", "ended">> # <<"info">> /\ <<"ended">> # <<"info">>
OBVIOUS

LEMMA EgWorkNext ==
  ASSUME NEW k \in EgWork, Tail(k.todo) \in EgTodos
  PROVE  /\ [k EXCEPT !.todo = Tail(@)] \in EgWork
         /\ [k EXCEPT !.todo = Tail(@)].op = k.op /\ [k EXCEPT !.todo = Tail(@)].by = k.by
         /\ [k EXCEPT !.todo = Tail(@)].status = k.status
         /\ [k EXCEPT !.todo = Tail(@)].todo = Tail(k.todo)
BY DEF EgWork

LEMMA EgIdleIs ==
  Egress!EgIdle.op = "idle" /\ Egress!EgIdle.todo = <<>>
BY DEF Egress!EgIdle

(* A caller is idle or at work on what is left.                             *)
LEMMA EgAtWork ==
  ASSUME EgTypes, NEW c \in EgCallers
  PROVE  /\ egCall[c] \in {Egress!EgIdle} \cup EgWork
         /\ egCall[c].op = "idle" <=> egCall[c] = Egress!EgIdle
         /\ egCall[c].op # "idle" <=> egCall[c] \in EgWork
         /\ egCall[c].todo # <<>> => egCall[c] \in EgWork
         /\ egCall[c].op # "idle" => egCall[c].todo \in EgTodos /\ egCall[c].todo # <<>>
<1>1. egCall[c] \in {Egress!EgIdle} \cup EgWork
  BY DEF EgTypes
<1>2. \A k \in EgWork : k.op # "idle" /\ k.todo \in EgTodos
  BY DEF EgWork
<1>3. \A k \in EgWork : k.todo # <<>>
  BY <1>2, EgTodoSteps
<1> QED BY <1>1, <1>2, <1>3, EgIdleIs

LEMMA EgStartKeeps ==
  ASSUME EgInv, Egress!StartEgress
  PROVE  EgInv'
<1>1. /\ egServer = "none" /\ egServer' = "starting"
      /\ egSent' = {[op |-> "create", by |-> w, status |-> "starting"] : w \in egLimits.creates}
      /\ UNCHANGED <<egLimits, egInfo, egListed, egEnded, egOld, egCall, egStarted, egAnswer, egExcused>>
  BY DEF Egress!StartEgress
<1>2. \A m \in egSent' : m \in EgSents /\ m.op = "create" /\ m.status = "starting"
  BY <1>1 DEF EgInv, EgTypes, EgSents
<1>20. EgTypes'
  BY <1>1, <1>2 DEF EgInv, EgTypes
<1>21. EgCalls'
  BY <1>1, <1>2 DEF EgInv, EgCalls, EgCallIs, EgTypes
<1>22. EgReached'
  BY <1>1, <1>2, Zenon DEF EgInv, EgReached, Reached, Writes, Egress!RefusalIsTrue, EgTypes
<1>23. EgOrder'
  BY <1>1, <1>2 DEF EgInv, EgOrder, Writes, EgTypes
<1>24. EgTold'
  BY <1>1, <1>2 DEF EgInv, EgTold, EgTypes
<1>25. EgNewest'
  BY <1>1, <1>2 DEF EgInv, EgNewest, Sent, WillWrite, Writes, EgCalls, EgCallIs, EgReached, Reached, EgSents, EgTypes
<1>26. EgListing'
  BY <1>1, <1>2 DEF EgInv, EgListing, EgTypes
<1>27. EgSwept'
  BY <1>1, <1>2 DEF EgInv, EgSwept, EgTypes
<1> QED BY <1>20, <1>21, <1>22, <1>23, <1>24, <1>25, <1>26, <1>27 DEF EgInv

LEMMA EgGoesKeeps ==
  ASSUME EgInv, Egress!ServerGoes
  PROVE  EgInv'
<1>1. PICK s : /\ egServer' = s /\ egServer \in {"starting", "active", "ending"}
               /\ s \in {"active", "ending", "ended"} /\ s # egServer
               /\ egServer = "ending" => s = "ended"
               /\ egSent' = egSent \cup {[op |-> "update", by |-> "server", status |-> s]}
               /\ UNCHANGED <<egLimits, egInfo, egListed, egEnded, egOld, egCall, egStarted, egAnswer, egExcused>>
  BY DEF Egress!ServerGoes, Egress!EgStatuses
<1>2. PICK m : m = [op |-> "update", by |-> "server", status |-> s]
  OBVIOUS
<1>3. m \in EgSents /\ m.op = "update" /\ m.status = s /\ egSent' = egSent \cup {m}
  BY <1>1, <1>2 DEF EgSents
<1>20. EgTypes'
  BY <1>1, <1>3 DEF EgInv, EgTypes
<1>21. EgCalls'
  BY <1>1, <1>3 DEF EgInv, EgCalls, EgCallIs, EgTypes
<1>22. EgReached'
  BY <1>1, <1>3, Zenon DEF EgInv, EgReached, Reached, Writes, Egress!RefusalIsTrue, EgTypes
<1>23. EgOrder'
  BY <1>1, <1>3 DEF EgInv, EgOrder, Writes, EgTypes
<1>24. EgTold'
  BY <1>1, <1>3 DEF EgInv, EgTold, EgTypes
<1>25. EgNewest'
  BY <1>1, <1>3 DEF EgInv, EgNewest, Sent, WillWrite, Writes, EgCalls, EgCallIs, EgReached, Reached, EgSents, EgTypes
<1>26. EgListing'
  BY <1>1, <1>3 DEF EgInv, EgListing, EgTypes
<1>27. EgSwept'
  BY <1>1, <1>3 DEF EgInv, EgSwept, EgTypes
<1> QED BY <1>20, <1>21, <1>22, <1>23, <1>24, <1>25, <1>26, <1>27 DEF EgInv

LEMMA EgStopKeeps ==
  ASSUME EgInv, Egress!StopEgress
  PROVE  EgInv'
<1>1. UNCHANGED <<egLimits, egInfo, egListed, egEnded, egOld, egCall, egStarted, egExcused>>
  BY DEF Egress!StopEgress
<1>2. \/ /\ egServer \in {"starting", "active"} /\ egServer' = "ending"
         /\ egAnswer' = "stopping"
         /\ egSent' = egSent \cup {[op |-> "update", by |-> "server", status |-> "ending"]}
      \/ UNCHANGED <<egServer, egSent>> /\ egAnswer' = Egress!StopAnswer(egInfo)
  BY DEF Egress!StopEgress
<1>3. PICK m : m = [op |-> "update", by |-> "server", status |-> "ending"]
  OBVIOUS
<1>4. m \in EgSents /\ m.op = "update" /\ m.status = "ending"
  BY <1>3 DEF EgSents
<1>6. Egress!StopAnswer(egInfo) = "cannot be stopped" => egInfo \in {"ending", "ended"}
  BY DEF Egress!StopAnswer, EgInv, EgTypes
<1>5. \/ /\ egServer \in {"starting", "active"} /\ egServer' = "ending"
         /\ egAnswer' = "stopping" /\ egSent' = egSent \cup {m}
      \/ /\ UNCHANGED <<egServer, egSent>>
         /\ egAnswer' = "cannot be stopped" => egInfo \in {"ending", "ended"}
  BY <1>2, <1>3, <1>6, Zenon
<1>20. EgTypes'
  BY <1>1, <1>4, <1>5, Zenon DEF EgInv, EgTypes
<1>21. EgCalls'
  BY <1>1, <1>4, <1>5, Zenon DEF EgInv, EgCalls, EgCallIs, EgTypes
<1>22. EgReached'
  BY <1>1, <1>4, <1>5, Zenon DEF EgInv, EgReached, Reached, Writes, Egress!RefusalIsTrue, EgTypes
<1>23. EgOrder'
  BY <1>1, <1>4, <1>5, Zenon DEF EgInv, EgOrder, Writes, EgTypes
<1>24. EgTold'
  BY <1>1, <1>4, <1>5, Zenon DEF EgInv, EgTold, EgTypes
<1>25. EgNewest'
  BY <1>1, <1>4, <1>5, Zenon DEF EgInv, EgNewest, Sent, WillWrite, Writes, EgCalls, EgCallIs, EgReached, Reached, EgSents, EgTypes
<1>26. EgListing'
  BY <1>1, <1>4, <1>5, Zenon DEF EgInv, EgListing, EgTypes
<1>27. EgSwept'
  BY <1>1, <1>4, <1>5, Zenon DEF EgInv, EgSwept, EgTypes
<1> QED BY <1>20, <1>21, <1>22, <1>23, <1>24, <1>25, <1>26, <1>27 DEF EgInv

LEMMA EgDayKeeps ==
  ASSUME EgInv, Egress!DayPasses
  PROVE  EgInv'
<1>1. /\ egServer = "ended" /\ ~egOld /\ egOld' = TRUE
      /\ UNCHANGED <<egLimits, egInfo, egListed, egEnded, egCall, egServer, egSent, egStarted,
                     egAnswer, egExcused>>
  BY DEF Egress!DayPasses
<1>2. /\ \A m \in egSent : m.op # "update"
      /\ \A c \in EgCallers : egCall[c].op \in {"idle", "sweep"}
  BY DEF Egress!DayPasses, EgInv, EgTypes, EgSents, Egress!EgBusy
<1>20. EgTypes'
  BY <1>1, <1>2 DEF EgInv, EgTypes
<1>21. EgCalls'
  BY <1>1, <1>2 DEF EgInv, EgCalls, EgCallIs, EgTypes
<1>22. EgReached'
  BY <1>1, <1>2 DEF EgInv, EgReached, Reached, Writes, Egress!RefusalIsTrue, EgTypes
<1>23. EgOrder'
  BY <1>1, <1>2 DEF EgInv, EgOrder, Writes, EgTypes
<1>24. EgTold'
  BY <1>1, <1>2 DEF EgInv, EgTold, EgTypes
<1>25. EgNewest'
  BY <1>1, <1>2 DEF EgInv, EgNewest, Sent, WillWrite, Writes, EgCalls, EgCallIs, EgReached, Reached, EgSents, EgTypes
<1>26. EgListing'
  BY <1>1, <1>2 DEF EgInv, EgListing, EgTypes
<1>27. EgSwept'
  BY <1>1, <1>2 DEF EgInv, EgSwept, EgTypes
<1> QED BY <1>20, <1>21, <1>22, <1>23, <1>24, <1>25, <1>26, <1>27 DEF EgInv

LEMMA EgUpdateKeeps ==
  ASSUME EgInv, NEW c \in EgCallers, Egress!UpdateEgress(c)
  PROVE  EgInv'
<1>1. PICK m \in egSent :
        /\ egCall[c].op = "idle" /\ m.op = "update" /\ egSent' = egSent \ {m}
        /\ egCall' = [egCall EXCEPT ![c] = [op |-> "update", by |-> "server",
                        status |-> m.status, todo |-> Egress!UpdateCommands(m.status)]]
        /\ egExcused' = egExcused
              \cup ((IF egInfo = "none" /\ ~egOld THEN {"first"} ELSE {})
                    \cup (IF egOld THEN {"late"} ELSE {})
                    \cup (IF \/ \E d \in Egress!EgBusy : egCall[d].op \in {"create", "update"}
                             \/ m.status # egServer
                          THEN {"overtaken"} ELSE {}))
  BY DEF Egress!UpdateEgress, Egress!EgExcuse
<1>2. UNCHANGED <<egLimits, egInfo, egListed, egEnded, egOld, egServer, egStarted, egAnswer>>
  BY DEF Egress!UpdateEgress
<1>3. m.status \in {"active", "ending", "ended"} /\ m \in EgSents
  BY <1>1 DEF EgInv, EgTypes, EgSents
<1>4. PICK k : k = [op |-> "update", by |-> "server", status |-> m.status,
                    todo |-> Egress!UpdateCommands(m.status)]
  OBVIOUS
<1>5. /\ k \in EgWork /\ k.op = "update" /\ k.by = "server" /\ k.status = m.status
      /\ k.todo = (IF m.status = "ended" THEN <<"info", "ended">> ELSE <<"info">>)
      /\ Head(k.todo) = "info"
  BY <1>3, <1>4, EgTodoSteps DEF EgWork, EgTodos, UpdateTodos, Egress!UpdateCommands
<1>6. /\ egCall' \in [EgCallers -> {Egress!EgIdle} \cup EgWork]
      /\ egCall'[c] = k /\ \A d \in EgCallers : d # c => egCall'[d] = egCall[d]
  BY <1>1, <1>4, <1>5 DEF EgInv, EgTypes
<1>7. /\ egExcused \subseteq egExcused'
      /\ "first" \notin egExcused' => egInfo # "none" \/ egOld
      /\ "late" \notin egExcused' => ~egOld
      /\ "overtaken" \notin egExcused' => m.status = egServer
  BY <1>1 DEF EgInv, EgTypes
<1>8. "overtaken" \notin egExcused' => \A d \in EgCallers : ~Writes(d)
  BY <1>1 DEF Egress!EgBusy, Writes
<1>9. egCall[c].op = "idle" /\ egSent' = egSent \ {m} /\ m \in egSent
  BY <1>1
<1>20. EgTypes'
  BY <1>2, <1>3, <1>5, <1>6, <1>7, <1>8, <1>9 DEF EgInv, EgTypes
<1>21. EgCalls'
  BY <1>2, <1>3, <1>5, <1>6, <1>7, <1>8, <1>9 DEF EgInv, EgCalls, EgCallIs, EgTypes
<1>22. EgReached'
  BY <1>2, <1>3, <1>5, <1>6, <1>7, <1>8, <1>9, Zenon DEF EgInv, EgReached, Reached, Writes, Egress!RefusalIsTrue, EgTypes
<1>23. EgOrder'
  BY <1>2, <1>3, <1>5, <1>6, <1>7, <1>8, <1>9 DEF EgInv, EgOrder, Writes, EgTypes
<1>24. EgTold'
  BY <1>2, <1>3, <1>5, <1>6, <1>7, <1>8, <1>9 DEF EgInv, EgTold, EgTypes
<1>25. EgNewest'
  BY <1>2, <1>3, <1>5, <1>6, <1>7, <1>8, <1>9 DEF EgInv, EgNewest, Sent, WillWrite, Writes, EgCalls, EgCallIs, EgReached, Reached, EgSents, EgTypes
<1>26. EgListing'
  BY <1>2, <1>3, <1>5, <1>6, <1>7, <1>8, <1>9 DEF EgInv, EgListing, EgTypes
<1>27. EgSwept'
  BY <1>2, <1>3, <1>5, <1>6, <1>7, <1>8, <1>9 DEF EgInv, EgSwept, EgTypes
<1> QED BY <1>20, <1>21, <1>22, <1>23, <1>24, <1>25, <1>26, <1>27 DEF EgInv

LEMMA EgCreateKeeps ==
  ASSUME EgInv, NEW c \in EgCallers, Egress!CreateEgress(c)
  PROVE  EgInv'
<1>1. PICK m \in egSent :
        /\ egCall[c].op = "idle" /\ m.op = "create" /\ egSent' = egSent \ {m}
        /\ egCall' = [egCall EXCEPT ![c] =
             IF egInfo # "none" THEN Egress!EgIdle
             ELSE [op |-> "create", by |-> m.by, status |-> "starting", todo |-> Egress!StoreCommands]]
        /\ egExcused' = egExcused \cup ((IF egOld THEN {"late"} ELSE {})
              \cup (IF \E d \in Egress!EgBusy : egCall[d].op \in {"create", "update"}
                    THEN {"overtaken"} ELSE {}))
  BY DEF Egress!CreateEgress, Egress!EgExcuse
<1>2. UNCHANGED <<egLimits, egInfo, egListed, egEnded, egOld, egServer, egStarted, egAnswer>>
  BY DEF Egress!CreateEgress
<1>3. m \in EgSents /\ m.by \in {"launcher", "server"} /\ m.status = "starting"
  BY <1>1 DEF EgInv, EgTypes, EgSents
<1>4. PICK k : k = IF egInfo # "none" THEN Egress!EgIdle
                   ELSE [op |-> "create", by |-> m.by, status |-> "starting",
                         todo |-> Egress!StoreCommands]
  OBVIOUS
<1>5. /\ egInfo # "none" => k = Egress!EgIdle /\ k.op = "idle"
      /\ egInfo = "none" => /\ k \in EgWork /\ k.op = "create" /\ k.status = "starting"
                            /\ k.todo = <<"info", "listed", "told">>
  BY <1>3, <1>4, EgIdleIs DEF EgWork, EgTodos, StoreTodos, Egress!StoreCommands
<1>6. /\ egCall' \in [EgCallers -> {Egress!EgIdle} \cup EgWork]
      /\ egCall'[c] = k /\ \A d \in EgCallers : d # c => egCall'[d] = egCall[d]
  BY <1>1, <1>4, <1>5 DEF EgInv, EgTypes
<1>7. /\ egExcused \subseteq egExcused'
      /\ "late" \notin egExcused' => ~egOld
  BY <1>1 DEF EgInv, EgTypes
<1>8. "overtaken" \notin egExcused' => \A d \in EgCallers : ~Writes(d)
  BY <1>1 DEF Egress!EgBusy, Writes
<1>9. egCall[c].op = "idle" /\ egSent' = egSent \ {m} /\ m \in egSent /\ m.op = "create"
  BY <1>1
<1>10. <<"info", "listed", "told">> \in StoreTodos
  BY DEF StoreTodos
<1>20. EgTypes'
  BY <1>2, <1>3, <1>5, <1>6, <1>7, <1>8, <1>9, <1>10, EgTodosDiffer DEF EgInv, EgTypes
<1>21. EgCalls'
  BY <1>2, <1>3, <1>5, <1>6, <1>7, <1>8, <1>9, <1>10, EgTodosDiffer DEF EgInv, EgCalls, EgCallIs, EgTypes
<1>22. EgReached'
  BY <1>2, <1>3, <1>5, <1>6, <1>7, <1>8, <1>9, <1>10, EgTodosDiffer, Zenon DEF EgInv, EgReached, Reached, Writes, Egress!RefusalIsTrue, EgTypes
<1>23. EgOrder'
  BY <1>2, <1>3, <1>5, <1>6, <1>7, <1>8, <1>9, <1>10, EgTodosDiffer DEF EgInv, EgOrder, Writes, EgTypes
<1>24. EgTold'
  BY <1>2, <1>3, <1>5, <1>6, <1>7, <1>8, <1>9, <1>10, EgTodosDiffer DEF EgInv, EgTold, EgTypes
<1>25. EgNewest'
  BY <1>2, <1>3, <1>5, <1>6, <1>7, <1>8, <1>9, <1>10, EgTodosDiffer DEF EgInv, EgNewest, Sent, WillWrite, Writes, EgCalls, EgCallIs, EgReached, Reached, EgSents, EgTypes
<1>26. EgListing'
  BY <1>2, <1>3, <1>5, <1>6, <1>7, <1>8, <1>9, <1>10, EgTodosDiffer DEF EgInv, EgListing, EgTypes
<1>27. EgSwept'
  BY <1>2, <1>3, <1>5, <1>6, <1>7, <1>8, <1>9, <1>10, EgTodosDiffer DEF EgInv, EgSwept, EgTypes
<1> QED BY <1>20, <1>21, <1>22, <1>23, <1>24, <1>25, <1>26, <1>27 DEF EgInv

LEMMA EgCutKeeps ==
  ASSUME EgInv, NEW c \in EgCallers, Egress!Cut(c)
  PROVE  EgInv'
<1>1. /\ egCall[c].todo # <<>> /\ egCall' = [egCall EXCEPT ![c] = Egress!EgIdle]
      /\ egExcused' = egExcused \cup (IF egCall[c].op = "sweep" THEN {} ELSE {"cut"})
  BY DEF Egress!Cut, Egress!EgExcuse
<1>2. UNCHANGED <<egLimits, egInfo, egListed, egEnded, egOld, egServer, egSent, egStarted, egAnswer>>
  BY DEF Egress!Cut
<1>3. /\ egCall' \in [EgCallers -> {Egress!EgIdle} \cup EgWork]
      /\ egCall'[c].op = "idle" /\ \A d \in EgCallers : d # c => egCall'[d] = egCall[d]
  BY <1>1, EgIdleIs DEF EgInv, EgTypes
<1>4. egExcused \subseteq egExcused' /\ ("cut" \notin egExcused' => egCall[c].op = "sweep")
  BY <1>1
<1>20. EgTypes'
  BY <1>2, <1>3, <1>4 DEF EgInv, EgTypes
<1>21. EgCalls'
  BY <1>2, <1>3, <1>4 DEF EgInv, EgCalls, EgCallIs, EgTypes
<1>22. EgReached'
  BY <1>2, <1>3, <1>4, Zenon DEF EgInv, EgReached, Reached, Writes, Egress!RefusalIsTrue, EgTypes
<1>23. EgOrder'
  BY <1>2, <1>3, <1>4 DEF EgInv, EgOrder, Writes, EgTypes
<1>24. EgTold'
  BY <1>2, <1>3, <1>4 DEF EgInv, EgTold, EgTypes
<1>25. EgNewest'
  BY <1>2, <1>3, <1>4 DEF EgInv, EgNewest, Sent, WillWrite, Writes, EgCalls, EgCallIs, EgReached, Reached, EgSents, EgTypes
<1>26. EgListing'
  BY <1>2, <1>3, <1>4 DEF EgInv, EgListing, EgTypes
<1>27. EgSwept'
  BY <1>2, <1>3, <1>4 DEF EgInv, EgSwept, EgTypes
<1> QED BY <1>20, <1>21, <1>22, <1>23, <1>24, <1>25, <1>26, <1>27 DEF EgInv

LEMMA EgCleanKeeps ==
  ASSUME EgInv, NEW c \in EgCallers, Egress!CleanEndedEgress(c)
  PROVE  EgInv'
<1>1. /\ egCall[c].op = "idle"
      /\ egCall' = [egCall EXCEPT ![c] = IF egEnded /\ egOld
                      THEN [op |-> "sweep", by |-> "worker", status |-> "none",
                            todo |-> Egress!SweepCommands]
                      ELSE Egress!EgIdle]
  BY DEF Egress!CleanEndedEgress
<1>2. UNCHANGED <<egLimits, egInfo, egListed, egEnded, egOld, egServer, egSent, egStarted, egAnswer,
                  egExcused>>
  BY DEF Egress!CleanEndedEgress
<1>3. PICK k : k = IF egEnded /\ egOld
                   THEN [op |-> "sweep", by |-> "worker", status |-> "none",
                         todo |-> Egress!SweepCommands]
                   ELSE Egress!EgIdle
  OBVIOUS
<1>4. /\ k \in {Egress!EgIdle} \cup EgWork /\ k.op \in {"idle", "sweep"}
      /\ k.op = "sweep" => egOld /\ k.todo = <<"unlist", "delete", "forget">>
  BY <1>3, EgIdleIs DEF EgWork, EgTodos, SweepTodos, Egress!SweepCommands
<1>5. /\ egCall' \in [EgCallers -> {Egress!EgIdle} \cup EgWork]
      /\ egCall'[c] = k /\ \A d \in EgCallers : d # c => egCall'[d] = egCall[d]
  BY <1>1, <1>3, <1>4 DEF EgInv, EgTypes
<1>6. <<"unlist", "delete", "forget">> \in SweepTodos /\ egCall[c].op = "idle"
  BY <1>1 DEF SweepTodos
<1>20. EgTypes'
  BY <1>2, <1>4, <1>5, <1>6, EgTodosDiffer DEF EgInv, EgTypes
<1>21. EgCalls'
  BY <1>2, <1>4, <1>5, <1>6, EgTodosDiffer DEF EgInv, EgCalls, EgCallIs, EgTypes
<1>22. EgReached'
  BY <1>2, <1>4, <1>5, <1>6, EgTodosDiffer, Zenon DEF EgInv, EgReached, Reached, Writes, Egress!RefusalIsTrue, EgTypes
<1>23. EgOrder'
  BY <1>2, <1>4, <1>5, <1>6, EgTodosDiffer DEF EgInv, EgOrder, Writes, EgTypes
<1>24. EgTold'
  BY <1>2, <1>4, <1>5, <1>6, EgTodosDiffer DEF EgInv, EgTold, EgTypes
<1>25. EgNewest'
  BY <1>2, <1>4, <1>5, <1>6, EgTodosDiffer DEF EgInv, EgNewest, Sent, WillWrite, Writes, EgCalls, EgCallIs, EgReached, Reached, EgSents, EgTypes
<1>26. EgListing'
  BY <1>2, <1>4, <1>5, <1>6, EgTodosDiffer DEF EgInv, EgListing, EgTypes
<1>27. EgSwept'
  BY <1>2, <1>4, <1>5, <1>6, EgTodosDiffer DEF EgInv, EgSwept, EgTypes
<1> QED BY <1>20, <1>21, <1>22, <1>23, <1>24, <1>25, <1>26, <1>27 DEF EgInv

(* What a command does: it is the first of what is left of the call, which  *)
(* goes on with the others or ends.                                         *)
EgRuns(c, k, op, t, u) ==
  /\ k.op = op /\ k.todo = t
  /\ IF u = <<>> THEN egCall'[c] = Egress!EgIdle /\ egCall'[c].op = "idle"
     ELSE /\ egCall'[c] \in EgWork /\ egCall'[c].op = op /\ egCall'[c].by = k.by
          /\ egCall'[c].status = k.status /\ egCall'[c].todo = u

LEMMA EgCommandRuns ==
  ASSUME EgTypes, EgCalls, NEW c \in EgCallers, Egress!Command(c)
  PROVE  /\ egCall[c] \in EgWork
         /\ egCall' \in [EgCallers -> {Egress!EgIdle} \cup EgWork]
         /\ \A d \in EgCallers : d # c => egCall'[d] = egCall[d]
         /\ UNCHANGED <<egLimits, egOld, egServer, egSent, egAnswer, egExcused>>
         /\ \/ /\ EgRuns(c, egCall[c], "create", <<"info", "listed", "told">>, <<"listed", "told">>)
               /\ egInfo' = egCall[c].status /\ UNCHANGED <<egListed, egEnded, egStarted>>
            \/ /\ EgRuns(c, egCall[c], "create", <<"listed", "told">>, <<"told">>)
               /\ egListed' = TRUE /\ UNCHANGED <<egInfo, egEnded, egStarted>>
            \/ /\ EgRuns(c, egCall[c], "create", <<"told">>, <<>>)
               /\ egStarted' = egStarted + 1 /\ UNCHANGED <<egInfo, egListed, egEnded>>
            \/ /\ EgRuns(c, egCall[c], "update", <<"info", "ended">>, <<"ended">>)
               /\ egInfo' = egCall[c].status /\ UNCHANGED <<egListed, egEnded, egStarted>>
            \/ /\ EgRuns(c, egCall[c], "update", <<"ended">>, <<>>)
               /\ egEnded' = TRUE /\ UNCHANGED <<egInfo, egListed, egStarted>>
            \/ /\ EgRuns(c, egCall[c], "update", <<"info">>, <<>>)
               /\ egInfo' = egCall[c].status /\ UNCHANGED <<egListed, egEnded, egStarted>>
            \/ /\ EgRuns(c, egCall[c], "sweep", <<"unlist", "delete", "forget">>, <<"delete", "forget">>)
               /\ egListed' = FALSE /\ UNCHANGED <<egInfo, egEnded, egStarted>>
            \/ /\ EgRuns(c, egCall[c], "sweep", <<"delete", "forget">>, <<"forget">>)
               /\ egInfo' = "none" /\ UNCHANGED <<egListed, egEnded, egStarted>>
            \/ /\ EgRuns(c, egCall[c], "sweep", <<"forget">>, <<>>)
               /\ egEnded' = FALSE /\ UNCHANGED <<egInfo, egListed, egStarted>>
<1>1. PICK k : k = egCall[c]
  OBVIOUS
<1>2. k \in EgWork /\ k.todo \in EgTodos
  BY <1>1, EgAtWork DEF Egress!Command
<1>3. PICK h : h = Head(k.todo)
  OBVIOUS
<1>4. /\ egInfo' = CASE h = "info" -> k.status [] h = "delete" -> "none" [] OTHER -> egInfo
      /\ egListed' = CASE h = "listed" -> TRUE [] h = "unlist" -> FALSE [] OTHER -> egListed
      /\ egEnded' = CASE h = "ended" -> TRUE [] h = "forget" -> FALSE [] OTHER -> egEnded
      /\ egStarted' = IF h = "told" THEN egStarted + 1 ELSE egStarted
  BY <1>1, <1>3 DEF Egress!Command
<1>5. PICK n : n = IF Len(egCall[c].todo) = 1 THEN Egress!EgIdle
                   ELSE [egCall[c] EXCEPT !.todo = Tail(@)]
  OBVIOUS
<1>6. egCall' = [egCall EXCEPT ![c] = n]
  BY <1>5, Zenon DEF Egress!Command
<1>7. UNCHANGED <<egLimits, egOld, egServer, egSent, egAnswer, egExcused>>
  BY DEF Egress!Command
<1>8. EgCallIs(k)
  BY <1>1 DEF EgCalls
<1>9. k.op \in {"create", "update", "sweep"}
  BY <1>2 DEF EgWork
<1>10. /\ Len(k.todo) = 1 => n = Egress!EgIdle /\ n.op = "idle"
       /\ Len(k.todo) # 1 /\ Tail(k.todo) \in EgTodos =>
            /\ n \in EgWork /\ n.op = k.op /\ n.by = k.by /\ n.status = k.status
            /\ n.todo = Tail(k.todo)
  BY <1>1, <1>2, <1>5, EgWorkNext, EgIdleIs
<1>11. Len(k.todo) # 1 => Tail(k.todo) \in EgTodos
  BY <1>2, EgTodoSteps DEF EgTodos, StoreTodos, UpdateTodos, SweepTodos
<1>12. n \in {Egress!EgIdle} \cup EgWork
  BY <1>10, <1>11
<1>13. /\ egCall' \in [EgCallers -> {Egress!EgIdle} \cup EgWork] /\ egCall'[c] = n
       /\ \A d \in EgCallers : d # c => egCall'[d] = egCall[d]
  BY <1>6, <1>12 DEF EgTypes
<1>20. ASSUME k.op = "create", k.todo = <<"info", "listed", "told">>
       PROVE  EgRuns(c, egCall[c], "create", <<"info", "listed", "told">>, <<"listed", "told">>) /\ egInfo' = egCall[c].status /\ UNCHANGED <<egListed, egEnded, egStarted>>
  <2>1. h = "info" /\ Len(k.todo) # 1 /\ Tail(k.todo) = <<"listed", "told">> /\ <<"listed", "told">> # <<>>
    BY <1>2, <1>3, <1>20, EgTodoSteps
  <2>2. EgRuns(c, egCall[c], "create", <<"info", "listed", "told">>, <<"listed", "told">>)
    BY <1>1, <1>10, <1>11, <1>13, <1>20, <2>1 DEF EgRuns
  <2> QED BY <1>1, <1>4, <2>1, <2>2
<1>21. ASSUME k.op = "create", k.todo = <<"listed", "told">>
       PROVE  EgRuns(c, egCall[c], "create", <<"listed", "told">>, <<"told">>) /\ egListed' = TRUE /\ UNCHANGED <<egInfo, egEnded, egStarted>>
  <2>1. h = "listed" /\ Len(k.todo) # 1 /\ Tail(k.todo) = <<"told">> /\ <<"told">> # <<>>
    BY <1>2, <1>3, <1>21, EgTodoSteps
  <2>2. EgRuns(c, egCall[c], "create", <<"listed", "told">>, <<"told">>)
    BY <1>1, <1>10, <1>11, <1>13, <1>21, <2>1 DEF EgRuns
  <2> QED BY <1>1, <1>4, <2>1, <2>2
<1>22. ASSUME k.op = "create", k.todo = <<"told">>
       PROVE  EgRuns(c, egCall[c], "create", <<"told">>, <<>>) /\ egStarted' = egStarted + 1 /\ UNCHANGED <<egInfo, egListed, egEnded>>
  <2>1. h = "told" /\ Len(k.todo) = 1
    BY <1>2, <1>3, <1>22, EgTodoSteps
  <2>2. EgRuns(c, egCall[c], "create", <<"told">>, <<>>)
    BY <1>1, <1>10, <1>11, <1>13, <1>22, <2>1 DEF EgRuns
  <2> QED BY <1>1, <1>4, <2>1, <2>2
<1>23. ASSUME k.op = "update", k.todo = <<"info", "ended">>
       PROVE  EgRuns(c, egCall[c], "update", <<"info", "ended">>, <<"ended">>) /\ egInfo' = egCall[c].status /\ UNCHANGED <<egListed, egEnded, egStarted>>
  <2>1. h = "info" /\ Len(k.todo) # 1 /\ Tail(k.todo) = <<"ended">> /\ <<"ended">> # <<>>
    BY <1>2, <1>3, <1>23, EgTodoSteps
  <2>2. EgRuns(c, egCall[c], "update", <<"info", "ended">>, <<"ended">>)
    BY <1>1, <1>10, <1>11, <1>13, <1>23, <2>1 DEF EgRuns
  <2> QED BY <1>1, <1>4, <2>1, <2>2
<1>24. ASSUME k.op = "update", k.todo = <<"ended">>
       PROVE  EgRuns(c, egCall[c], "update", <<"ended">>, <<>>) /\ egEnded' = TRUE /\ UNCHANGED <<egInfo, egListed, egStarted>>
  <2>1. h = "ended" /\ Len(k.todo) = 1
    BY <1>2, <1>3, <1>24, EgTodoSteps
  <2>2. EgRuns(c, egCall[c], "update", <<"ended">>, <<>>)
    BY <1>1, <1>10, <1>11, <1>13, <1>24, <2>1 DEF EgRuns
  <2> QED BY <1>1, <1>4, <2>1, <2>2
<1>25. ASSUME k.op = "update", k.todo = <<"info">>
       PROVE  EgRuns(c, egCall[c], "update", <<"info">>, <<>>) /\ egInfo' = egCall[c].status /\ UNCHANGED <<egListed, egEnded, egStarted>>
  <2>1. h = "info" /\ Len(k.todo) = 1
    BY <1>2, <1>3, <1>25, EgTodoSteps
  <2>2. EgRuns(c, egCall[c], "update", <<"info">>, <<>>)
    BY <1>1, <1>10, <1>11, <1>13, <1>25, <2>1 DEF EgRuns
  <2> QED BY <1>1, <1>4, <2>1, <2>2
<1>26. ASSUME k.op = "sweep", k.todo = <<"unlist", "delete", "forget">>
       PROVE  EgRuns(c, egCall[c], "sweep", <<"unlist", "delete", "forget">>, <<"delete", "forget">>) /\ egListed' = FALSE /\ UNCHANGED <<egInfo, egEnded, egStarted>>
  <2>1. h = "unlist" /\ Len(k.todo) # 1 /\ Tail(k.todo) = <<"delete", "forget">> /\ <<"delete", "forget">> # <<>>
    BY <1>2, <1>3, <1>26, EgTodoSteps
  <2>2. EgRuns(c, egCall[c], "sweep", <<"unlist", "delete", "forget">>, <<"delete", "forget">>)
    BY <1>1, <1>10, <1>11, <1>13, <1>26, <2>1 DEF EgRuns
  <2> QED BY <1>1, <1>4, <2>1, <2>2
<1>27. ASSUME k.op = "sweep", k.todo = <<"delete", "forget">>
       PROVE  EgRuns(c, egCall[c], "sweep", <<"delete", "forget">>, <<"forget">>) /\ egInfo' = "none" /\ UNCHANGED <<egListed, egEnded, egStarted>>
  <2>1. h = "delete" /\ Len(k.todo) # 1 /\ Tail(k.todo) = <<"forget">> /\ <<"forget">> # <<>>
    BY <1>2, <1>3, <1>27, EgTodoSteps
  <2>2. EgRuns(c, egCall[c], "sweep", <<"delete", "forget">>, <<"forget">>)
    BY <1>1, <1>10, <1>11, <1>13, <1>27, <2>1 DEF EgRuns
  <2> QED BY <1>1, <1>4, <2>1, <2>2
<1>28. ASSUME k.op = "sweep", k.todo = <<"forget">>
       PROVE  EgRuns(c, egCall[c], "sweep", <<"forget">>, <<>>) /\ egEnded' = FALSE /\ UNCHANGED <<egInfo, egListed, egStarted>>
  <2>1. h = "forget" /\ Len(k.todo) = 1
    BY <1>2, <1>3, <1>28, EgTodoSteps
  <2>2. EgRuns(c, egCall[c], "sweep", <<"forget">>, <<>>)
    BY <1>1, <1>10, <1>11, <1>13, <1>28, <2>1 DEF EgRuns
  <2> QED BY <1>1, <1>4, <2>1, <2>2
<1>30. CASE k.op = "create"
  BY <1>1, <1>2, <1>7, <1>8, <1>13, <1>20, <1>21, <1>22, <1>30 DEF EgCallIs, StoreTodos
<1>31. CASE k.op = "update"
  BY <1>1, <1>2, <1>7, <1>8, <1>13, <1>23, <1>24, <1>25, <1>31 DEF EgCallIs
<1>32. CASE k.op = "sweep"
  BY <1>1, <1>2, <1>7, <1>8, <1>13, <1>26, <1>27, <1>28, <1>32 DEF EgCallIs, SweepTodos
<1> QED BY <1>9, <1>30, <1>31, <1>32

LEMMA EgCommandKeeps ==
  ASSUME EgInv, NEW c \in EgCallers, Egress!Command(c)
  PROVE  EgInv'
<1>1. EgTypes /\ EgCalls
  BY DEF EgInv
<1>2. /\ EgCallIs(egCall[c]) /\ egCall[c].op # "idle" /\ egStarted \in Nat
      /\ egCall[c].status \in {"none", "starting", "active", "ending", "ended"}
  BY <1>1, EgCommandRuns, EgAtWork DEF EgCalls, EgTypes, EgWork
<1>3. /\ <<"info", "listed", "told">> \in StoreTodos /\ <<"listed", "told">> \in StoreTodos
      /\ <<"told">> \in StoreTodos /\ <<"delete", "forget">> \in SweepTodos
      /\ <<"forget">> \in SweepTodos
  BY DEF StoreTodos, SweepTodos
<1>4. /\ Head(<<"listed", "told">>) = "listed" /\ Head(<<"told">>) = "told"
      /\ Head(<<"ended">>) = "ended" /\ Head(<<"info", "listed", "told">>) = "info"
      /\ Head(<<"info", "ended">>) = "info" /\ Head(<<"info">>) = "info"
  OBVIOUS
<1>5. /\ egCall' \in [EgCallers -> {Egress!EgIdle} \cup EgWork]
      /\ \A d \in EgCallers : d # c => egCall'[d] = egCall[d]
      /\ UNCHANGED <<egLimits, egOld, egServer, egSent, egAnswer, egExcused>>
  BY <1>1, EgCommandRuns
<1>10. CASE /\ EgRuns(c, egCall[c], "create", <<"info", "listed", "told">>, <<"listed", "told">>)
            /\ egInfo' = egCall[c].status /\ UNCHANGED <<egListed, egEnded, egStarted>>
  <2>1. /\ egCall[c].op = "create" /\ egCall[c].todo = <<"info", "listed", "told">>
        /\ egCall'[c].op = "create" /\ egCall'[c].todo = <<"listed", "told">>
        /\ egCall'[c].by = egCall[c].by /\ egCall'[c].status = egCall[c].status
        /\ egInfo' = egCall[c].status /\ UNCHANGED <<egListed, egEnded, egStarted>>
    BY <1>10, EgTodosDiffer DEF EgRuns
  <2>2. EgTypes'
    BY <1>1, <1>2, <1>3, <1>4, <1>5, <2>1, EgTodosDiffer DEF EgInv, EgTypes
  <2>3. EgCalls'
    BY <1>1, <1>2, <1>3, <1>4, <1>5, <2>1, EgTodosDiffer DEF EgInv, EgCalls, EgCallIs
  <2>4. EgReached'
    BY <1>1, <1>2, <1>3, <1>4, <1>5, <2>1, EgTodosDiffer, Zenon DEF EgInv, EgReached, Reached, Writes, Egress!RefusalIsTrue, EgOrder, EgCallIs
  <2>5. EgOrder'
    BY <1>1, <1>2, <1>3, <1>4, <1>5, <2>1, EgTodosDiffer DEF EgInv, EgOrder, Writes
  <2>6. EgTold'
    BY <1>1, <1>2, <1>3, <1>4, <1>5, <2>1, EgTodosDiffer DEF EgInv, EgTold, EgOrder, Writes, EgCallIs
  <2>7. EgNewest'
    BY <1>1, <1>2, <1>3, <1>4, <1>5, <2>1, EgTodosDiffer DEF EgInv, EgNewest, Sent, WillWrite, Writes, EgOrder, EgCallIs
  <2>8. EgListing'
    BY <1>1, <1>2, <1>3, <1>4, <1>5, <2>1, EgTodosDiffer DEF EgInv, EgListing, EgOrder, Writes, EgCallIs
  <2>9. EgSwept'
    BY <1>1, <1>2, <1>3, <1>4, <1>5, <2>1, EgTodosDiffer DEF EgInv, EgSwept, EgOrder, Writes, EgCallIs, EgCalls
  <2> QED BY <2>2, <2>3, <2>4, <2>5, <2>6, <2>7, <2>8, <2>9 DEF EgInv
<1>11. CASE /\ EgRuns(c, egCall[c], "create", <<"listed", "told">>, <<"told">>)
            /\ egListed' = TRUE /\ UNCHANGED <<egInfo, egEnded, egStarted>>
  <2>1. /\ egCall[c].op = "create" /\ egCall[c].todo = <<"listed", "told">>
        /\ egCall'[c].op = "create" /\ egCall'[c].todo = <<"told">>
        /\ egCall'[c].by = egCall[c].by /\ egCall'[c].status = egCall[c].status
        /\ egListed' = TRUE /\ UNCHANGED <<egInfo, egEnded, egStarted>>
    BY <1>11, EgTodosDiffer DEF EgRuns
  <2>2. EgTypes'
    BY <1>1, <1>2, <1>3, <1>4, <1>5, <2>1, EgTodosDiffer DEF EgInv, EgTypes
  <2>3. EgCalls'
    BY <1>1, <1>2, <1>3, <1>4, <1>5, <2>1, EgTodosDiffer DEF EgInv, EgCalls, EgCallIs
  <2>4. EgReached'
    BY <1>1, <1>2, <1>3, <1>4, <1>5, <2>1, EgTodosDiffer, Zenon DEF EgInv, EgReached, Reached, Writes, Egress!RefusalIsTrue, EgOrder, EgCallIs
  <2>5. EgOrder'
    BY <1>1, <1>2, <1>3, <1>4, <1>5, <2>1, EgTodosDiffer DEF EgInv, EgOrder, Writes
  <2>6. EgTold'
    BY <1>1, <1>2, <1>3, <1>4, <1>5, <2>1, EgTodosDiffer DEF EgInv, EgTold, EgOrder, Writes, EgCallIs
  <2>7. EgNewest'
    BY <1>1, <1>2, <1>3, <1>4, <1>5, <2>1, EgTodosDiffer DEF EgInv, EgNewest, Sent, WillWrite, Writes, EgOrder, EgCallIs
  <2>8. EgListing'
    BY <1>1, <1>2, <1>3, <1>4, <1>5, <2>1, EgTodosDiffer DEF EgInv, EgListing, EgOrder, Writes, EgCallIs
  <2>9. EgSwept'
    BY <1>1, <1>2, <1>3, <1>4, <1>5, <2>1, EgTodosDiffer DEF EgInv, EgSwept, EgOrder, Writes, EgCallIs, EgCalls
  <2> QED BY <2>2, <2>3, <2>4, <2>5, <2>6, <2>7, <2>8, <2>9 DEF EgInv
<1>12. CASE /\ EgRuns(c, egCall[c], "create", <<"told">>, <<>>)
            /\ egStarted' = egStarted + 1 /\ UNCHANGED <<egInfo, egListed, egEnded>>
  <2>1. /\ egCall[c].op = "create" /\ egCall[c].todo = <<"told">>
        /\ egCall'[c].op = "idle"
        /\ egStarted' = egStarted + 1 /\ UNCHANGED <<egInfo, egListed, egEnded>>
    BY <1>12, EgTodosDiffer DEF EgRuns
  <2>2. EgTypes'
    BY <1>1, <1>2, <1>3, <1>4, <1>5, <2>1, EgTodosDiffer DEF EgInv, EgTypes
  <2>3. EgCalls'
    BY <1>1, <1>2, <1>3, <1>4, <1>5, <2>1, EgTodosDiffer DEF EgInv, EgCalls, EgCallIs
  <2>4. EgReached'
    BY <1>1, <1>2, <1>3, <1>4, <1>5, <2>1, EgTodosDiffer, Zenon DEF EgInv, EgReached, Reached, Writes, Egress!RefusalIsTrue, EgOrder, EgCallIs
  <2>5. EgOrder'
    BY <1>1, <1>2, <1>3, <1>4, <1>5, <2>1, EgTodosDiffer DEF EgInv, EgOrder, Writes
  <2>6. EgTold'
    BY <1>1, <1>2, <1>3, <1>4, <1>5, <2>1, EgTodosDiffer DEF EgInv, EgTold, EgOrder, Writes, EgCallIs
  <2>7. EgNewest'
    BY <1>1, <1>2, <1>3, <1>4, <1>5, <2>1, EgTodosDiffer DEF EgInv, EgNewest, Sent, WillWrite, Writes, EgOrder, EgCallIs
  <2>8. EgListing'
    BY <1>1, <1>2, <1>3, <1>4, <1>5, <2>1, EgTodosDiffer DEF EgInv, EgListing, EgOrder, Writes, EgCallIs
  <2>9. EgSwept'
    BY <1>1, <1>2, <1>3, <1>4, <1>5, <2>1, EgTodosDiffer DEF EgInv, EgSwept, EgOrder, Writes, EgCallIs, EgCalls
  <2> QED BY <2>2, <2>3, <2>4, <2>5, <2>6, <2>7, <2>8, <2>9 DEF EgInv
<1>13. CASE /\ EgRuns(c, egCall[c], "update", <<"info", "ended">>, <<"ended">>)
            /\ egInfo' = egCall[c].status /\ UNCHANGED <<egListed, egEnded, egStarted>>
  <2>1. /\ egCall[c].op = "update" /\ egCall[c].todo = <<"info", "ended">>
        /\ egCall'[c].op = "update" /\ egCall'[c].todo = <<"ended">>
        /\ egCall'[c].by = egCall[c].by /\ egCall'[c].status = egCall[c].status
        /\ egInfo' = egCall[c].status /\ UNCHANGED <<egListed, egEnded, egStarted>>
    BY <1>13, EgTodosDiffer DEF EgRuns
  <2>2. EgTypes'
    BY <1>1, <1>2, <1>3, <1>4, <1>5, <2>1, EgTodosDiffer DEF EgInv, EgTypes
  <2>3. EgCalls'
    BY <1>1, <1>2, <1>3, <1>4, <1>5, <2>1, EgTodosDiffer DEF EgInv, EgCalls, EgCallIs
  <2>4. EgReached'
    BY <1>1, <1>2, <1>3, <1>4, <1>5, <2>1, EgTodosDiffer, Zenon DEF EgInv, EgReached, Reached, Writes, Egress!RefusalIsTrue, EgOrder, EgCallIs
  <2>5. EgOrder'
    BY <1>1, <1>2, <1>3, <1>4, <1>5, <2>1, EgTodosDiffer DEF EgInv, EgOrder, Writes
  <2>6. EgTold'
    BY <1>1, <1>2, <1>3, <1>4, <1>5, <2>1, EgTodosDiffer DEF EgInv, EgTold, EgOrder, Writes, EgCallIs
  <2>7. EgNewest'
    BY <1>1, <1>2, <1>3, <1>4, <1>5, <2>1, EgTodosDiffer DEF EgInv, EgNewest, Sent, WillWrite, Writes, EgOrder, EgCallIs
  <2>8. EgListing'
    BY <1>1, <1>2, <1>3, <1>4, <1>5, <2>1, EgTodosDiffer DEF EgInv, EgListing, EgOrder, Writes, EgCallIs
  <2>9. EgSwept'
    BY <1>1, <1>2, <1>3, <1>4, <1>5, <2>1, EgTodosDiffer DEF EgInv, EgSwept, EgOrder, Writes, EgCallIs, EgCalls
  <2> QED BY <2>2, <2>3, <2>4, <2>5, <2>6, <2>7, <2>8, <2>9 DEF EgInv
<1>14. CASE /\ EgRuns(c, egCall[c], "update", <<"ended">>, <<>>)
            /\ egEnded' = TRUE /\ UNCHANGED <<egInfo, egListed, egStarted>>
  <2>1. /\ egCall[c].op = "update" /\ egCall[c].todo = <<"ended">>
        /\ egCall'[c].op = "idle"
        /\ egEnded' = TRUE /\ UNCHANGED <<egInfo, egListed, egStarted>>
    BY <1>14, EgTodosDiffer DEF EgRuns
  <2>2. EgTypes'
    BY <1>1, <1>2, <1>3, <1>4, <1>5, <2>1, EgTodosDiffer DEF EgInv, EgTypes
  <2>3. EgCalls'
    BY <1>1, <1>2, <1>3, <1>4, <1>5, <2>1, EgTodosDiffer DEF EgInv, EgCalls, EgCallIs
  <2>4. EgReached'
    BY <1>1, <1>2, <1>3, <1>4, <1>5, <2>1, EgTodosDiffer, Zenon DEF EgInv, EgReached, Reached, Writes, Egress!RefusalIsTrue, EgOrder, EgCallIs
  <2>5. EgOrder'
    BY <1>1, <1>2, <1>3, <1>4, <1>5, <2>1, EgTodosDiffer DEF EgInv, EgOrder, Writes
  <2>6. EgTold'
    BY <1>1, <1>2, <1>3, <1>4, <1>5, <2>1, EgTodosDiffer DEF EgInv, EgTold, EgOrder, Writes, EgCallIs
  <2>7. EgNewest'
    BY <1>1, <1>2, <1>3, <1>4, <1>5, <2>1, EgTodosDiffer DEF EgInv, EgNewest, Sent, WillWrite, Writes, EgOrder, EgCallIs
  <2>8. EgListing'
    BY <1>1, <1>2, <1>3, <1>4, <1>5, <2>1, EgTodosDiffer DEF EgInv, EgListing, EgOrder, Writes, EgCallIs
  <2>9. EgSwept'
    BY <1>1, <1>2, <1>3, <1>4, <1>5, <2>1, EgTodosDiffer DEF EgInv, EgSwept, EgOrder, Writes, EgCallIs, EgCalls
  <2> QED BY <2>2, <2>3, <2>4, <2>5, <2>6, <2>7, <2>8, <2>9 DEF EgInv
<1>15. CASE /\ EgRuns(c, egCall[c], "update", <<"info">>, <<>>)
            /\ egInfo' = egCall[c].status /\ UNCHANGED <<egListed, egEnded, egStarted>>
  <2>1. /\ egCall[c].op = "update" /\ egCall[c].todo = <<"info">>
        /\ egCall'[c].op = "idle"
        /\ egInfo' = egCall[c].status /\ UNCHANGED <<egListed, egEnded, egStarted>>
    BY <1>15, EgTodosDiffer DEF EgRuns
  <2>2. EgTypes'
    BY <1>1, <1>2, <1>3, <1>4, <1>5, <2>1, EgTodosDiffer DEF EgInv, EgTypes
  <2>3. EgCalls'
    BY <1>1, <1>2, <1>3, <1>4, <1>5, <2>1, EgTodosDiffer DEF EgInv, EgCalls, EgCallIs
  <2>4. EgReached'
    BY <1>1, <1>2, <1>3, <1>4, <1>5, <2>1, EgTodosDiffer, Zenon DEF EgInv, EgReached, Reached, Writes, Egress!RefusalIsTrue, EgOrder, EgCallIs
  <2>5. EgOrder'
    BY <1>1, <1>2, <1>3, <1>4, <1>5, <2>1, EgTodosDiffer DEF EgInv, EgOrder, Writes
  <2>6. EgTold'
    BY <1>1, <1>2, <1>3, <1>4, <1>5, <2>1, EgTodosDiffer DEF EgInv, EgTold, EgOrder, Writes, EgCallIs
  <2>7. EgNewest'
    BY <1>1, <1>2, <1>3, <1>4, <1>5, <2>1, EgTodosDiffer DEF EgInv, EgNewest, Sent, WillWrite, Writes, EgOrder, EgCallIs
  <2>8. EgListing'
    BY <1>1, <1>2, <1>3, <1>4, <1>5, <2>1, EgTodosDiffer DEF EgInv, EgListing, EgOrder, Writes, EgCallIs
  <2>9. EgSwept'
    BY <1>1, <1>2, <1>3, <1>4, <1>5, <2>1, EgTodosDiffer DEF EgInv, EgSwept, EgOrder, Writes, EgCallIs, EgCalls
  <2> QED BY <2>2, <2>3, <2>4, <2>5, <2>6, <2>7, <2>8, <2>9 DEF EgInv
<1>16. CASE /\ EgRuns(c, egCall[c], "sweep", <<"unlist", "delete", "forget">>, <<"delete", "forget">>)
            /\ egListed' = FALSE /\ UNCHANGED <<egInfo, egEnded, egStarted>>
  <2>1. /\ egCall[c].op = "sweep" /\ egCall[c].todo = <<"unlist", "delete", "forget">>
        /\ egCall'[c].op = "sweep" /\ egCall'[c].todo = <<"delete", "forget">>
        /\ egCall'[c].by = egCall[c].by /\ egCall'[c].status = egCall[c].status
        /\ egListed' = FALSE /\ UNCHANGED <<egInfo, egEnded, egStarted>>
    BY <1>16, EgTodosDiffer DEF EgRuns
  <2>2. EgTypes'
    BY <1>1, <1>2, <1>3, <1>4, <1>5, <2>1, EgTodosDiffer DEF EgInv, EgTypes
  <2>3. EgCalls'
    BY <1>1, <1>2, <1>3, <1>4, <1>5, <2>1, EgTodosDiffer DEF EgInv, EgCalls, EgCallIs
  <2>4. EgReached'
    BY <1>1, <1>2, <1>3, <1>4, <1>5, <2>1, EgTodosDiffer DEF EgInv, EgReached, Reached, Writes, Egress!RefusalIsTrue, EgOrder, EgCallIs
  <2>5. EgOrder'
    BY <1>1, <1>2, <1>3, <1>4, <1>5, <2>1, EgTodosDiffer DEF EgInv, EgOrder, Writes
  <2>6. EgTold'
    BY <1>1, <1>2, <1>3, <1>4, <1>5, <2>1, EgTodosDiffer DEF EgInv, EgTold, EgOrder, Writes, EgCallIs
  <2>7. EgNewest'
    BY <1>1, <1>2, <1>3, <1>4, <1>5, <2>1, EgTodosDiffer DEF EgInv, EgNewest, Sent, WillWrite, Writes, EgOrder, EgCallIs
  <2>8. EgListing'
    BY <1>1, <1>2, <1>3, <1>4, <1>5, <2>1, EgTodosDiffer DEF EgInv, EgListing, EgOrder, Writes, EgCallIs
  <2>9. EgSwept'
    BY <1>1, <1>2, <1>3, <1>4, <1>5, <2>1, EgTodosDiffer DEF EgInv, EgSwept, EgOrder, Writes, EgCallIs, EgCalls
  <2> QED BY <2>2, <2>3, <2>4, <2>5, <2>6, <2>7, <2>8, <2>9 DEF EgInv
<1>17. CASE /\ EgRuns(c, egCall[c], "sweep", <<"delete", "forget">>, <<"forget">>)
            /\ egInfo' = "none" /\ UNCHANGED <<egListed, egEnded, egStarted>>
  <2>1. /\ egCall[c].op = "sweep" /\ egCall[c].todo = <<"delete", "forget">>
        /\ egCall'[c].op = "sweep" /\ egCall'[c].todo = <<"forget">>
        /\ egCall'[c].by = egCall[c].by /\ egCall'[c].status = egCall[c].status
        /\ egInfo' = "none" /\ UNCHANGED <<egListed, egEnded, egStarted>>
    BY <1>17, EgTodosDiffer DEF EgRuns
  <2>2. EgTypes'
    BY <1>1, <1>2, <1>3, <1>4, <1>5, <2>1, EgTodosDiffer DEF EgInv, EgTypes
  <2>3. EgCalls'
    BY <1>1, <1>2, <1>3, <1>4, <1>5, <2>1, EgTodosDiffer DEF EgInv, EgCalls, EgCallIs
  <2>4. EgReached'
    BY <1>1, <1>2, <1>3, <1>4, <1>5, <2>1, EgTodosDiffer DEF EgInv, EgReached, Reached, Writes, Egress!RefusalIsTrue, EgOrder, EgCallIs
  <2>5. EgOrder'
    BY <1>1, <1>2, <1>3, <1>4, <1>5, <2>1, EgTodosDiffer DEF EgInv, EgOrder, Writes
  <2>6. EgTold'
    BY <1>1, <1>2, <1>3, <1>4, <1>5, <2>1, EgTodosDiffer DEF EgInv, EgTold, EgOrder, Writes, EgCallIs
  <2>7. EgNewest'
    BY <1>1, <1>2, <1>3, <1>4, <1>5, <2>1, EgTodosDiffer DEF EgInv, EgNewest, Sent, WillWrite, Writes, EgOrder, EgCallIs
  <2>8. EgListing'
    BY <1>1, <1>2, <1>3, <1>4, <1>5, <2>1, EgTodosDiffer DEF EgInv, EgListing, EgOrder, Writes, EgCallIs
  <2>9. EgSwept'
    BY <1>1, <1>2, <1>3, <1>4, <1>5, <2>1, EgTodosDiffer DEF EgInv, EgSwept, EgOrder, Writes, EgCallIs, EgCalls
  <2> QED BY <2>2, <2>3, <2>4, <2>5, <2>6, <2>7, <2>8, <2>9 DEF EgInv
<1>18. CASE /\ EgRuns(c, egCall[c], "sweep", <<"forget">>, <<>>)
            /\ egEnded' = FALSE /\ UNCHANGED <<egInfo, egListed, egStarted>>
  <2>1. /\ egCall[c].op = "sweep" /\ egCall[c].todo = <<"forget">>
        /\ egCall'[c].op = "idle"
        /\ egEnded' = FALSE /\ UNCHANGED <<egInfo, egListed, egStarted>>
    BY <1>18, EgTodosDiffer DEF EgRuns
  <2>2. EgTypes'
    BY <1>1, <1>2, <1>3, <1>4, <1>5, <2>1, EgTodosDiffer DEF EgInv, EgTypes
  <2>3. EgCalls'
    BY <1>1, <1>2, <1>3, <1>4, <1>5, <2>1, EgTodosDiffer DEF EgInv, EgCalls, EgCallIs
  <2>4. EgReached'
    BY <1>1, <1>2, <1>3, <1>4, <1>5, <2>1, EgTodosDiffer DEF EgInv, EgReached, Reached, Writes, Egress!RefusalIsTrue, EgOrder, EgCallIs
  <2>5. EgOrder'
    BY <1>1, <1>2, <1>3, <1>4, <1>5, <2>1, EgTodosDiffer DEF EgInv, EgOrder, Writes
  <2>6. EgTold'
    BY <1>1, <1>2, <1>3, <1>4, <1>5, <2>1, EgTodosDiffer DEF EgInv, EgTold, EgOrder, Writes, EgCallIs
  <2>7. EgNewest'
    BY <1>1, <1>2, <1>3, <1>4, <1>5, <2>1, EgTodosDiffer DEF EgInv, EgNewest, Sent, WillWrite, Writes, EgOrder, EgCallIs
  <2>8. EgListing'
    BY <1>1, <1>2, <1>3, <1>4, <1>5, <2>1, EgTodosDiffer DEF EgInv, EgListing, EgOrder, Writes, EgCallIs
  <2>9. EgSwept'
    BY <1>1, <1>2, <1>3, <1>4, <1>5, <2>1, EgTodosDiffer DEF EgInv, EgSwept, EgOrder, Writes, EgCallIs, EgCalls
  <2> QED BY <2>2, <2>3, <2>4, <2>5, <2>6, <2>7, <2>8, <2>9 DEF EgInv
<1> QED BY <1>1, EgCommandRuns, <1>10, <1>11, <1>12, <1>13, <1>14, <1>15, <1>16, <1>17, <1>18

LEMMA EgInitHolds ==
  ASSUME Egress!EgInit PROVE EgInv
<1>1. /\ egLimits \in EgLimits /\ egInfo = "none" /\ egListed = FALSE /\ egEnded = FALSE /\ egOld = FALSE
      /\ egCall = [c \in EgCallers |-> Egress!EgIdle]
      /\ egServer = "none" /\ egSent = {} /\ egStarted = 0 /\ egAnswer = "none"
  BY DEF Egress!EgInit
<1>2. \A c \in EgCallers : egCall[c].op = "idle" /\ egCall[c] = Egress!EgIdle
  BY <1>1, EgIdleIs
<1>3. EgTypes
  BY <1>1, RecordNames, Zenon DEF EgTypes
<1>4. EgCalls /\ EgOrder
  BY <1>1, <1>2 DEF EgCalls, EgCallIs, EgOrder, Writes
<1>5. EgReached
  BY <1>1, <1>2 DEF EgReached, Reached, Writes, Egress!RefusalIsTrue
<1>6. EgTold /\ EgListing /\ EgSwept
  BY <1>1, <1>2 DEF EgTold, EgListing, EgSwept
<1>7. EgNewest
  BY <1>1, <1>2 DEF EgNewest, WillWrite, Writes
<1> QED BY <1>3, <1>4, <1>5, <1>6, <1>7 DEF EgInv

LEMMA EgStays ==
  ASSUME EgInv, UNCHANGED <<egLimits, egInfo, egListed, egEnded, egOld, egCall, egServer>>,
         UNCHANGED <<egSent, egStarted, egAnswer, egExcused>>
  PROVE  EgInv'
<1>1. EgTypes' /\ EgCalls' /\ EgOrder'
  BY DEF EgInv, EgTypes, EgCalls, EgCallIs, EgOrder, Writes
<1>2. EgReached'
  BY Zenon DEF EgInv, EgReached, Reached, Writes, Egress!RefusalIsTrue
<1>3. EgTold' /\ EgListing' /\ EgSwept'
  BY DEF EgInv, EgTold, EgListing, EgSwept
<1>4. EgNewest'
  BY DEF EgInv, EgNewest, Sent, WillWrite, Writes
<1> QED BY <1>1, <1>2, <1>3, <1>4 DEF EgInv

LEMMA EgNextKeeps ==
  ASSUME EgInv, Egress!EgNext PROVE EgInv'
<1>1. CASE \E c \in EgCallers : Egress!CleanFails(c)
  <2>1. /\ UNCHANGED <<egLimits, egInfo, egListed, egEnded, egOld, egCall, egServer>>
        /\ UNCHANGED <<egSent, egStarted, egAnswer, egExcused>>
    BY <1>1 DEF Egress!CleanFails
  <2> QED BY <2>1, EgStays
<1>2. CASE Egress!StartEgress \/ Egress!ServerGoes \/ Egress!StopEgress \/ Egress!DayPasses
  BY <1>2, EgStartKeeps, EgGoesKeeps, EgStopKeeps, EgDayKeeps
<1>3. ASSUME NEW c \in EgCallers,
             \/ Egress!UpdateEgress(c) \/ Egress!CreateEgress(c) \/ Egress!Command(c)
             \/ Egress!Cut(c) \/ Egress!CleanEndedEgress(c)
      PROVE  EgInv'
  BY <1>3, EgUpdateKeeps, EgCreateKeeps, EgCommandKeeps, EgCutKeeps, EgCleanKeeps
<1> QED BY <1>1, <1>2, <1>3 DEF Egress!EgNext

LEMMA EgInvShows ==
  ASSUME EgInv
  PROVE  /\ Egress!LeftIsSwept /\ Egress!ListedIsKnown /\ Egress!StatusIsNewest
         /\ Egress!StartedOnce /\ Egress!RefusalIsTrue
<1>1. Egress!EgQuiet => egSent = {} /\ \A c \in EgCallers : egCall[c].op = "idle"
  BY DEF Egress!EgQuiet, Egress!EgBusy
<1>2. Egress!LeftIsSwept
  BY <1>1 DEF EgInv, EgSwept, Egress!LeftIsSwept
<1>3. Egress!ListedIsKnown
  BY <1>1 DEF EgInv, EgListing, EgReached, Reached, Egress!ListedIsKnown, Egress!ListEgress
<1>4. Egress!StatusIsNewest
  <2>1. ASSUME Egress!EgQuiet, egInfo # "none", egExcused \cap {"overtaken", "cut", "late", "first"} = {}
        PROVE  egInfo = egServer
    BY <1>1, <2>1 DEF EgInv, EgNewest, Sent, WillWrite, Writes
  <2> QED BY <2>1 DEF Egress!StatusIsNewest
<1>5. Egress!StartedOnce
  BY DEF EgInv, EgTypes, EgTold, Egress!StartedOnce
<1>6. Egress!RefusalIsTrue
  BY DEF EgInv, EgReached
<1> QED BY <1>2, <1>3, <1>4, <1>5, <1>6

-----------------------------------------------------------------------------
(* The record of an ingress.                                                *)
IgSomeRooms == IgRooms \cup {Ingress!NoRoom}
IgPcs == {"none", "load", "loadState", "decide", "remove", "tx", "exec",
          "rload", "rloadState", "stx", "sexec", "tell"}
IgWork ==
  [op : {"idle", "create", "update", "delete", "report"}, pc : IgPcs,
   room : IgSomeRooms, req : IgSomeRooms,
   seen : Ingress!States, rep : Ingress!States, was : Ingress!States,
   old : IgSomeRooms \cup {Ingress!NoInfo}, oldState : Ingress!States, tries : Int, dirty : BOOLEAN]

IgTypes ==
  /\ Ingress!IgTypeOK
  /\ igCall \in [IgCallers -> IgWork]
  /\ igUsed \in [calls : Nat, foreign : Nat, faults : Nat]
  /\ igPanicked \in BOOLEAN

(* Where a call can be.                                                     *)
IgAt(k) ==
  /\ k.op = "idle" <=> k.pc = "none"
  /\ k.op = "create" => k.pc \in {"tx", "exec", "stx", "sexec"} /\ k.rep = Ingress!Fresh
  /\ k.op = "delete" => k.pc \in {"load", "loadState", "decide", "remove"}
  /\ k.op = "report" => k.pc \in {"rload", "rloadState", "stx", "sexec", "tell"}
  /\ k.op = "update" => k.pc # "remove"
IgShape == \A c \in IgCallers : IgAt(igCall[c])

(* Before the create has stored the info there is nothing, and a call that  *)
(* looks finds nothing.                                                     *)
Nothing ==
  /\ igInfo = Ingress!NoInfo /\ igState = Ingress!NoState /\ igIndex = {}
  /\ igSession = Ingress!Fresh /\ igSent = {} /\ igTold = "inactive"
IgFirst ==
  /\ igUsed.calls = 0 => Nothing /\ \A c \in IgCallers : igCall[c].op = "idle"
  /\ \A c \in IgCallers : igCall[c].op = "create" /\ igCall[c].pc \in {"tx", "exec"} =>
       Nothing /\ \A d \in IgCallers : d # c => igCall[d].pc \in {"none", "load"}

(* A transaction that may write has read what is stored.                    *)
IgWatches ==
  \A c \in IgCallers :
    /\ igCall[c].pc = "exec" /\ ~igCall[c].dirty => igCall[c].old = igInfo
    /\ igCall[c].pc = "sexec" /\ ~igCall[c].dirty => igCall[c].oldState = igState

IgListing ==
  /\ Ingress!StoredIsFound
  /\ "moved" \notin igExcused => igIndex \subseteq {igInfo}
  /\ "revived" \notin igExcused /\ igInfo # Ingress!NoInfo => igIndex \subseteq {igInfo}

(* The states that calls know of, and all there are.                        *)
Reporting(k) == k.pc \in {"rload", "rloadState", "stx", "sexec", "tell"}
Arrived ==
  {igState, Ingress!Fresh, Ingress!NoState}
    \cup {igCall[c].rep : c \in {d \in IgCallers : Reporting(igCall[d])}}
    \cup {igCall[c].seen : c \in {d \in IgCallers : igCall[d].pc = "decide"}}
    \cup {igCall[c].oldState : c \in {d \in IgCallers : igCall[d].pc = "sexec"}}
AllStates == Arrived \cup igSent \cup {igSession}

(* A state is one that the latest session, or one before it, was in; an     *)
(* update may have reset its error.                                         *)
Past(s) ==
  /\ s.status # "none" /\ s.start >= 0 /\ s.upd >= 0
  /\ s.start = 0 => s = Ingress!Fresh
  /\ s.start <= igSession.start
  /\ s.start = igSession.start =>
       /\ s.upd <= igSession.upd
       /\ s.upd = igSession.upd =>
            \/ s.status = igSession.status
            \/ igSession.status = "error" /\ s.status = "inactive"
LastOfSession(s) == \A t \in AllStates : t.start = s.start => t.upd <= s.upd
IgHistory ==
  /\ \A s \in AllStates : s = Ingress!NoState \/ Past(s)
  /\ \A s \in AllStates : s.status = "error" => LastOfSession(s)
  /\ \A c \in IgCallers : igCall[c].op = "update" /\ Reporting(igCall[c]) =>
       LastOfSession(igCall[c].rep) /\ igCall[c].rep.status = "inactive"
  /\ \A c \in IgCallers : Reporting(igCall[c]) => igCall[c].rep # Ingress!NoState
  /\ igSession # Ingress!NoState /\ Ingress!NoState \notin igSent

(* An info without a state, and what calls have seen of it.                 *)
Excused5 == igExcused \cap {"creating", "gone", "revived", "failed", "gaveUp"} # {}
IgHasState ==
  /\ igInfo # Ingress!NoInfo /\ igState = Ingress!NoState => Ingress!Creating \/ Excused5
  /\ Ingress!InfoHasState
  /\ \A c \in IgCallers :
       /\ igCall[c].pc = "decide" /\ igCall[c].seen = Ingress!NoState => Excused5
       /\ igCall[c].pc \in {"stx", "sexec", "tell"} /\ igCall[c].op # "create" =>
            IF igCall[c].was = Ingress!NoState THEN Excused5
            ELSE igState # Ingress!NoState \/ "gone" \in igExcused
       /\ igCall[c].pc = "sexec" /\ igCall[c].op = "create" /\ igCall[c].oldState # Ingress!NoState =>
            igState # Ingress!NoState \/ Excused5

(* The last report of the latest session is under way or stored.            *)
IgLast ==
  igExcused \cap {"gone", "revived", "gaveUp", "failed"} = {}
    /\ igInfo # Ingress!NoInfo /\ igSession.start > 0 =>
    \/ igSession \in igSent
    \/ \E c \in IgCallers : /\ igCall[c].op = "report" /\ igCall[c].rep = igSession
                            /\ igCall[c].pc # "tell"
    \/ igState.start = igSession.start /\ igState.upd = igSession.upd

(* Reports that do not overtake each other come one by one, each later than *)
(* all before it.                                                           *)
NotLater(t, s) == t.start < s.start \/ (t.start = s.start /\ t.upd <= s.upd)
IgOrder ==
  "overtaken" \notin igExcused =>
    \A c \in IgCallers : igCall[c].op = "report" =>
      /\ \A d \in IgCallers : igCall[d].op = "report" => c = d
      /\ \A t \in Arrived : NotLater(t, igCall[c].rep)

(* What was told is the state stored, or the call that stored it will tell. *)
IgTells ==
  igExcused \cap {"overtaken", "creating", "gone", "revived", "gaveUp", "failed"} = {} =>
    /\ \A c \in IgCallers : igCall[c].pc = "tell" =>
         \E d \in IgCallers : igCall[d].pc = "tell" /\ igCall[d].rep = igState
    /\ igInfo # Ingress!NoInfo =>
         IF igState = Ingress!NoState THEN igTold = "inactive"
         ELSE \/ igTold = igState.status
              \/ \E d \in IgCallers : igCall[d].pc = "tell" /\ igCall[d].rep = igState

IgInv ==
  /\ IgTypes /\ IgShape /\ IgFirst /\ IgWatches /\ IgListing /\ IgHistory /\ IgHasState
  /\ IgLast /\ IgOrder /\ IgTells

LEMMA IgValues ==
  /\ Ingress!Fresh \in Ingress!States /\ Ingress!NoState \in Ingress!States
  /\ Ingress!Fresh # Ingress!NoState
  /\ Ingress!Fresh.start = 0 /\ Ingress!Fresh.upd = 0 /\ Ingress!Fresh.status = "inactive"
  /\ Ingress!NoState.start = -1 /\ Ingress!NoState.status = "none"
  /\ Ingress!NoCall \in IgWork
  /\ Ingress!NoCall.op = "idle" /\ Ingress!NoCall.pc = "none" /\ Ingress!NoCall.rep = Ingress!NoState
  /\ Ingress!NoInfo \notin IgSomeRooms
<1>1. /\ Ingress!Fresh \in Ingress!States /\ Ingress!NoState \in Ingress!States
      /\ Ingress!Fresh.start = 0 /\ Ingress!Fresh.upd = 0 /\ Ingress!Fresh.status = "inactive"
      /\ Ingress!NoState.start = -1 /\ Ingress!NoState.status = "none"
  BY DEF Ingress!Fresh, Ingress!NoState, Ingress!States, Ingress!Active
<1>2. Ingress!NoRoom \in IgSomeRooms /\ Ingress!NoInfo \notin IgSomeRooms
  BY RecordNames, Zenon DEF IgSomeRooms, Ingress!NoRoom, Ingress!NoInfo
<1>3. Ingress!NoCall \in IgWork
  BY <1>1, <1>2 DEF Ingress!NoCall, IgWork, IgPcs
<1>4. /\ Ingress!NoCall.op = "idle" /\ Ingress!NoCall.pc = "none"
      /\ Ingress!NoCall.rep = Ingress!NoState
  BY DEF Ingress!NoCall
<1> QED BY <1>1, <1>2, <1>3, <1>4

(* How the record of a call changes: it moves to another place; it is left  *)
(* alone but for a watch it may lose.                                       *)
Moved(c, p) ==
  /\ igCall'[c].pc = p
  /\ igCall'[c].op = igCall[c].op /\ igCall'[c].room = igCall[c].room
  /\ igCall'[c].req = igCall[c].req /\ igCall'[c].seen = igCall[c].seen
  /\ igCall'[c].rep = igCall[c].rep /\ igCall'[c].was = igCall[c].was
  /\ igCall'[c].old = igCall[c].old /\ igCall'[c].oldState = igCall[c].oldState
  /\ igCall'[c].dirty = igCall[c].dirty
Kept(c) ==
  /\ igCall'[c].pc = igCall[c].pc
  /\ igCall'[c].op = igCall[c].op /\ igCall'[c].room = igCall[c].room
  /\ igCall'[c].req = igCall[c].req /\ igCall'[c].seen = igCall[c].seen
  /\ igCall'[c].rep = igCall[c].rep /\ igCall'[c].was = igCall[c].was
  /\ igCall'[c].old = igCall[c].old /\ igCall'[c].oldState = igCall[c].oldState
  /\ igCall[c].dirty => igCall'[c].dirty
Others(c) ==
  /\ igCall' \in [IgCallers -> IgWork]
  /\ \A d \in IgCallers : d # c => Kept(d)
Ended(c) == igCall'[c] = Ingress!NoCall /\ igCall'[c].op = "idle" /\ igCall'[c].pc = "none"

LEMMA IgMoves ==
  ASSUME igCall \in [IgCallers -> IgWork], NEW c \in IgCallers, NEW p \in IgPcs,
         Ingress!Goes(c, p)
  PROVE  Others(c) /\ Moved(c, p)
<1>1. igCall' = [igCall EXCEPT ![c].pc = p]
  BY DEF Ingress!Goes
<1>2. igCall' \in [IgCallers -> IgWork]
  BY <1>1 DEF IgWork
<1>3. \A d \in IgCallers : d # c => igCall'[d] = igCall[d]
  BY <1>1
<1>4. Moved(c, p)
  BY <1>1 DEF Moved, IgWork
<1> QED BY <1>2, <1>3, <1>4 DEF Others, Kept

LEMMA IgMovesTries ==
  ASSUME igCall \in [IgCallers -> IgWork], NEW c \in IgCallers, NEW p \in IgPcs, NEW n \in Int,
         igCall' = [igCall EXCEPT ![c].pc = p, ![c].tries = n]
  PROVE  Others(c) /\ Moved(c, p)
<1>1. PICK k \in IgWork : k = [igCall[c] EXCEPT !.pc = p, !.tries = n]
  BY Zenon DEF IgWork
<1>2. igCall' \in [IgCallers -> IgWork]
  <2>1. igCall' = [igCall EXCEPT ![c] = k]
    BY <1>1
  <2> QED BY <2>1
<1>3. \A d \in IgCallers : d # c => igCall'[d] = igCall[d]
  OBVIOUS
<1>4. Moved(c, p)
  BY DEF Moved, IgWork
<1> QED BY <1>2, <1>3, <1>4 DEF Others, Kept

LEMMA IgEnds ==
  ASSUME igCall \in [IgCallers -> IgWork], NEW c \in IgCallers, Ingress!Ends(c)
  PROVE  Others(c) /\ Ended(c)
<1>1. igCall' = [igCall EXCEPT ![c] = Ingress!NoCall]
  BY DEF Ingress!Ends
<1>2. igCall' \in [IgCallers -> IgWork] /\ igCall'[c] = Ingress!NoCall
  BY <1>1, IgValues
<1>3. \A d \in IgCallers : d # c => igCall'[d] = igCall[d]
  BY <1>1
<1> QED BY <1>2, <1>3, IgValues DEF Others, Kept, Ended

LEMMA IgStateFails ==
  ASSUME igCall \in [IgCallers -> IgWork], NEW c \in IgCallers, Ingress!StateFails(c)
  PROVE  /\ Others(c)
         /\ IF igCall[c].op = "update" THEN Moved(c, "tx") ELSE Ended(c)
<1>1. CASE igCall[c].op = "update"
  <2>1. igCall' = [igCall EXCEPT ![c].pc = "tx", ![c].tries = 0]
    BY <1>1 DEF Ingress!StateFails, Ingress!AfterState
  <2>2. "tx" \in IgPcs /\ 0 \in Int
    BY DEF IgPcs
  <2>3. Others(c) /\ Moved(c, "tx")
    BY <2>1, <2>2, IgMovesTries, Zenon
  <2> QED BY <1>1, <2>3
<1>2. CASE igCall[c].op # "update"
  <2>1. Ingress!Ends(c)
    BY <1>2 DEF Ingress!StateFails, Ingress!AfterState
  <2> QED BY <1>2, <2>1, IgEnds
<1> QED BY <1>1, <1>2

(* A write to a key: those that watch it lose their watch.                  *)
LEMMA IgTouches ==
  ASSUME NEW calls2 \in [IgCallers -> IgWork], NEW key \in {"info", "state"}
  PROVE  /\ Ingress!Touched(calls2, key) \in [IgCallers -> IgWork]
         /\ \A c \in IgCallers :
              LET k == calls2[c]
                  l == Ingress!Touched(calls2, key)[c]
              IN  /\ l.pc = k.pc /\ l.op = k.op /\ l.room = k.room /\ l.req = k.req
                  /\ l.seen = k.seen /\ l.rep = k.rep /\ l.was = k.was /\ l.old = k.old
                  /\ l.oldState = k.oldState
                  /\ l.dirty = IF k.pc = (IF key = "info" THEN "exec" ELSE "sexec")
                               THEN TRUE ELSE k.dirty
<1> DEFINE at == IF key = "info" THEN "exec" ELSE "sexec"
           t(c) == IF calls2[c].pc = at THEN [calls2[c] EXCEPT !.dirty = TRUE] ELSE calls2[c]
<1>1. Ingress!Touched(calls2, key) = [c \in IgCallers |-> t(c)]
  BY DEF Ingress!Touched
<1>2. ASSUME NEW c \in IgCallers
      PROVE  /\ t(c) \in IgWork
             /\ t(c).pc = calls2[c].pc /\ t(c).op = calls2[c].op /\ t(c).room = calls2[c].room
             /\ t(c).req = calls2[c].req /\ t(c).seen = calls2[c].seen /\ t(c).rep = calls2[c].rep
             /\ t(c).was = calls2[c].was /\ t(c).old = calls2[c].old
             /\ t(c).oldState = calls2[c].oldState
             /\ t(c).dirty = IF calls2[c].pc = at THEN TRUE ELSE calls2[c].dirty
  <2>1. PICK k \in IgWork : k = calls2[c]
    OBVIOUS
  <2>2. /\ [k EXCEPT !.dirty = TRUE] \in IgWork
        /\ [k EXCEPT !.dirty = TRUE].dirty = TRUE
        /\ [k EXCEPT !.dirty = TRUE].pc = k.pc /\ [k EXCEPT !.dirty = TRUE].op = k.op
        /\ [k EXCEPT !.dirty = TRUE].room = k.room /\ [k EXCEPT !.dirty = TRUE].req = k.req
        /\ [k EXCEPT !.dirty = TRUE].seen = k.seen /\ [k EXCEPT !.dirty = TRUE].rep = k.rep
        /\ [k EXCEPT !.dirty = TRUE].was = k.was /\ [k EXCEPT !.dirty = TRUE].old = k.old
        /\ [k EXCEPT !.dirty = TRUE].oldState = k.oldState
    BY DEF IgWork
  <2>3. CASE k.pc = at
    BY <2>1, <2>2, <2>3
  <2>4. CASE k.pc # at
    BY <2>1, <2>4
  <2> QED BY <2>3, <2>4
<1> HIDE DEF t, at
<1>3. Ingress!Touched(calls2, key) \in [IgCallers -> IgWork]
  BY <1>1, <1>2
<1>4. \A c \in IgCallers : Ingress!Touched(calls2, key)[c] = t(c)
  BY <1>1
<1> SUFFICES \A c \in IgCallers :
               LET k == calls2[c]
                   l == Ingress!Touched(calls2, key)[c]
               IN  /\ l.pc = k.pc /\ l.op = k.op /\ l.room = k.room /\ l.req = k.req
                   /\ l.seen = k.seen /\ l.rep = k.rep /\ l.was = k.was /\ l.old = k.old
                   /\ l.oldState = k.oldState
                   /\ l.dirty = IF k.pc = at THEN TRUE ELSE k.dirty
  BY <1>3 DEF at
<1>5. TAKE c \in IgCallers
<1>6. Ingress!Touched(calls2, key)[c] = t(c)
  BY <1>4
<1> QED BY <1>2, <1>6

Same(k, l) ==
  /\ l.pc = k.pc /\ l.op = k.op /\ l.room = k.room /\ l.req = k.req
  /\ l.seen = k.seen /\ l.rep = k.rep /\ l.was = k.was /\ l.old = k.old
  /\ l.oldState = k.oldState
  /\ k.dirty => l.dirty
LEMMA IgTouched ==
  ASSUME NEW calls2 \in [IgCallers -> IgWork], NEW key \in {"info", "state"}
  PROVE  /\ Ingress!Touched(calls2, key) \in [IgCallers -> IgWork]
         /\ \A c \in IgCallers :
              /\ Same(calls2[c], Ingress!Touched(calls2, key)[c])
              /\ key = "info" /\ calls2[c].pc = "exec" => Ingress!Touched(calls2, key)[c].dirty
              /\ key = "state" /\ calls2[c].pc = "sexec" => Ingress!Touched(calls2, key)[c].dirty
<1>1. Ingress!Touched(calls2, key) \in [IgCallers -> IgWork]
  BY IgTouches
<1>2. ASSUME NEW c \in IgCallers
      PROVE  /\ Same(calls2[c], Ingress!Touched(calls2, key)[c])
             /\ key = "info" /\ calls2[c].pc = "exec" => Ingress!Touched(calls2, key)[c].dirty
             /\ key = "state" /\ calls2[c].pc = "sexec" => Ingress!Touched(calls2, key)[c].dirty
  <2>1. PICK l : l = Ingress!Touched(calls2, key)[c]
    OBVIOUS
  <2>2. /\ l.pc = calls2[c].pc /\ l.op = calls2[c].op /\ l.room = calls2[c].room
        /\ l.req = calls2[c].req /\ l.seen = calls2[c].seen /\ l.rep = calls2[c].rep
        /\ l.was = calls2[c].was /\ l.old = calls2[c].old /\ l.oldState = calls2[c].oldState
    BY <2>1, IgTouches, ZenonT(60)
  <2>3. l.dirty = IF calls2[c].pc = (IF key = "info" THEN "exec" ELSE "sexec")
                  THEN TRUE ELSE calls2[c].dirty
    BY <2>1, IgTouches, Zenon
  <2>4. /\ calls2[c].dirty => l.dirty
        /\ key = "info" /\ calls2[c].pc = "exec" => l.dirty
        /\ key = "state" /\ calls2[c].pc = "sexec" => l.dirty
    BY <2>3
  <2> QED BY <2>1, <2>2, <2>4 DEF Same
<1> QED BY <1>1, <1>2

LEMMA ArrivedHas ==
  /\ igState \in Arrived /\ Ingress!Fresh \in Arrived /\ Ingress!NoState \in Arrived
  /\ \A c \in IgCallers : /\ Reporting(igCall[c]) => igCall[c].rep \in Arrived
                          /\ igCall[c].pc = "decide" => igCall[c].seen \in Arrived
                          /\ igCall[c].pc = "sexec" => igCall[c].oldState \in Arrived
BY DEF Arrived

LEMMA ArrivedOnly ==
  ASSUME NEW S, igState' \in S, Ingress!Fresh \in S, Ingress!NoState \in S,
         \A c \in IgCallers : /\ Reporting(igCall'[c]) => igCall'[c].rep \in S
                              /\ igCall'[c].pc = "decide" => igCall'[c].seen \in S
                              /\ igCall'[c].pc = "sexec" => igCall'[c].oldState \in S
  PROVE  Arrived' \subseteq S
<1>1. ASSUME NEW t \in Arrived' PROVE t \in S
  <2>1. \/ t \in {igState', Ingress!Fresh, Ingress!NoState}
        \/ \E c \in IgCallers : Reporting(igCall'[c]) /\ t = igCall'[c].rep
        \/ \E c \in IgCallers : igCall'[c].pc = "decide" /\ t = igCall'[c].seen
        \/ \E c \in IgCallers : igCall'[c].pc = "sexec" /\ t = igCall'[c].oldState
    BY <1>1, Zenon DEF Arrived, Reporting
  <2> QED BY <2>1
<1> QED BY <1>1

(* No new state is known but one whose error was reset: the history stays   *)
(* what it was.                                                             *)
Resets == {t \in Ingress!States :
             /\ t.status = "inactive"
             /\ \E s \in Arrived : s.status = "error" /\ s.start = t.start /\ s.upd = t.upd}
LEMMA HistoryStays ==
  ASSUME IgTypes, IgHistory, UNCHANGED igSession, igSent' \subseteq igSent,
         AllStates' \subseteq AllStates \cup Resets,
         \A c \in IgCallers : Reporting(igCall'[c]) =>
           /\ igCall'[c].rep # Ingress!NoState
           /\ igCall'[c].op = "update" =>
                LastOfSession(igCall'[c].rep) /\ igCall'[c].rep.status = "inactive"
  PROVE  IgHistory'
<1>1. AllStates' \subseteq AllStates \cup Resets
  OBVIOUS
<1>2. \A s : Past(s)' <=> Past(s)
  BY DEF Past
<1>a. \A t \in Resets : /\ t.status = "inactive"
                        /\ \E s \in AllStates : /\ s.status = "error" /\ s.start = t.start
                                                /\ s.upd = t.upd
  BY DEF Resets, AllStates
<1>b. ASSUME NEW t \in Resets PROVE Past(t)
  <2>1. PICK s \in AllStates : s.status = "error" /\ s.start = t.start /\ s.upd = t.upd
    BY <1>a
  <2>2. Past(s) /\ s # Ingress!Fresh
    BY <2>1, IgValues DEF IgHistory
  <2> QED BY <1>a, <2>1, <2>2 DEF Past
<1>3. \A s : LastOfSession(s) => LastOfSession(s)'
  BY <1>1, <1>a DEF LastOfSession
<1>4. \A s \in AllStates' : s = Ingress!NoState \/ Past(s)'
  BY <1>1, <1>2, <1>b DEF IgHistory
<1>5. \A s \in AllStates' : s.status = "error" => LastOfSession(s)'
  BY <1>1, <1>3, <1>a DEF IgHistory
<1>6. ASSUME NEW c \in IgCallers, igCall'[c].op = "update", Reporting(igCall[c])'
      PROVE  (LastOfSession(igCall[c].rep))' /\ igCall'[c].rep.status = "inactive"
  <2>1. LastOfSession(igCall'[c].rep) /\ igCall'[c].rep.status = "inactive"
    BY <1>6 DEF Reporting
  <2>2. \A t \in AllStates' : t.start = igCall'[c].rep.start => t.upd <= igCall'[c].rep.upd
    BY <1>1, <1>a, <2>1 DEF LastOfSession
  <2> QED BY <2>1, <2>2 DEF LastOfSession
<1>7. igSession' # Ingress!NoState /\ Ingress!NoState \notin igSent'
  BY DEF IgHistory
<1>8. \A c \in IgCallers : Reporting(igCall[c])' => igCall'[c].rep # Ingress!NoState
  BY DEF Reporting
<1> QED BY <1>4, <1>5, <1>6, <1>7, <1>8 DEF IgHistory

(* A step that moves one call and leaves the record alone.                  *)
Settled == igState.start = igSession.start /\ igState.upd = igSession.upd
LEMMA IgMoveKeeps ==
  ASSUME IgInv, NEW c \in IgCallers, Others(c),
         UNCHANGED <<igLimits, igInfo, igKey, igIndex>>,
         UNCHANGED <<igState, igSession, igSent, igTold>>,
         igExcused \subseteq igExcused', IgTypes',
         igUsed'.calls = 0 => igUsed.calls = 0 /\ igCall'[c].op = "idle",
         IgAt(igCall'[c]),
         igCall'[c].op = "create" /\ igCall'[c].pc \in {"tx", "exec"} =>
           igCall[c].op = "create" /\ igCall[c].pc \in {"tx", "exec"},
         igCall'[c].pc \in {"none", "load"} \/ igCall[c].pc \notin {"none", "load"}
           \/ igInfo # Ingress!NoInfo,
         igCall'[c].pc = "exec" /\ ~igCall'[c].dirty => igCall'[c].old = igInfo,
         igCall'[c].pc = "sexec" /\ ~igCall'[c].dirty => igCall'[c].oldState = igState,
         Reporting(igCall'[c]) =>
           /\ igCall'[c].rep \in Arrived \cup Resets /\ igCall'[c].rep # Ingress!NoState
           /\ igCall'[c].op = "update" =>
                LastOfSession(igCall'[c].rep) /\ igCall'[c].rep.status = "inactive",
         igCall'[c].pc = "decide" => igCall'[c].seen \in Arrived,
         igCall'[c].pc = "sexec" => igCall'[c].oldState \in Arrived,
         igCall[c].op = "create" /\ igCall'[c].op # "create" =>
           igState # Ingress!NoState \/ Excused5',
         igPanicked' => igPanicked \/ Excused5',
         igCall'[c].pc = "decide" /\ igCall'[c].seen = Ingress!NoState => Excused5',
         igCall'[c].pc \in {"stx", "sexec", "tell"} /\ igCall'[c].op # "create" =>
           IF igCall'[c].was = Ingress!NoState THEN Excused5'
           ELSE igState # Ingress!NoState \/ "gone" \in igExcused',
         igCall'[c].pc = "sexec" /\ igCall'[c].op = "create" /\ igCall'[c].oldState # Ingress!NoState =>
           igState # Ingress!NoState \/ Excused5',
         igCall[c].op = "report" /\ igCall[c].rep = igSession /\ igCall[c].pc # "tell" =>
           \/ igCall'[c].op = "report" /\ igCall'[c].rep = igSession /\ igCall'[c].pc # "tell"
           \/ igExcused' \cap {"gone", "revived", "gaveUp", "failed"} # {}
           \/ Settled,
         igCall'[c].op = "report" => igCall[c].op = "report" /\ igCall'[c].rep = igCall[c].rep,
         igCall[c].pc = "tell" => igCall'[c].pc = "tell" /\ igCall'[c].rep = igCall[c].rep,
         igCall'[c].pc = "tell" =>
           \/ igCall[c].pc = "tell"
           \/ igExcused' \cap {"overtaken", "creating", "gone", "revived", "gaveUp", "failed"} # {}
  PROVE  IgInv'
<1>1. \A d \in IgCallers : d # c => Kept(d)
  BY DEF Others
<1>2. IgShape'
  BY <1>1 DEF IgInv, IgShape, IgAt, Kept
<1>3. IgFirst'
  <2>1. igUsed'.calls = 0 => Nothing' /\ \A d \in IgCallers : igCall'[d].op = "idle"
    BY <1>1 DEF IgInv, IgFirst, Nothing, Kept
  <2>2. ASSUME NEW e \in IgCallers, igCall'[e].op = "create", igCall'[e].pc \in {"tx", "exec"}
        PROVE  Nothing' /\ \A d \in IgCallers : d # e => igCall'[d].pc \in {"none", "load"}
    <3>1. igCall[e].op = "create" /\ igCall[e].pc \in {"tx", "exec"}
      BY <1>1, <2>2 DEF Kept
    <3>2. Nothing /\ \A d \in IgCallers : d # e => igCall[d].pc \in {"none", "load"}
      BY <3>1 DEF IgInv, IgFirst
    <3>3. Nothing'
      BY <3>2 DEF Nothing
    <3>4. ASSUME NEW d \in IgCallers, d # e PROVE igCall'[d].pc \in {"none", "load"}
      BY <1>1, <3>2, <3>4 DEF Nothing, Kept
    <3> QED BY <3>3, <3>4
  <2> QED BY <2>1, <2>2 DEF IgFirst
<1>4. IgWatches'
  BY <1>1 DEF IgInv, IgWatches, Kept
<1>5. IgListing'
  BY DEF IgInv, IgListing, Ingress!StoredIsFound
<1>6. Arrived' \subseteq Arrived \cup Resets
  <2>1. \A d \in IgCallers :
          /\ Reporting(igCall'[d]) => igCall'[d].rep \in Arrived \cup Resets
          /\ igCall'[d].pc = "decide" => igCall'[d].seen \in Arrived \cup Resets
          /\ igCall'[d].pc = "sexec" => igCall'[d].oldState \in Arrived \cup Resets
    BY <1>1, ArrivedHas DEF Kept, Reporting
  <2> HIDE DEF Arrived
  <2>2. igState' \in Arrived
    BY ArrivedHas
  <2> QED BY <2>1, <2>2, ArrivedHas, ArrivedOnly
<1>7. IgHistory'
  <2>1. ASSUME NEW d \in IgCallers, Reporting(igCall'[d])
        PROVE  /\ igCall'[d].rep # Ingress!NoState
               /\ igCall'[d].op = "update" =>
                    LastOfSession(igCall'[d].rep) /\ igCall'[d].rep.status = "inactive"
    <3>1. CASE d = c
      BY <2>1, <3>1
    <3>2. CASE d # c
      <4>1. /\ Reporting(igCall[d]) /\ igCall'[d].rep = igCall[d].rep /\ igCall'[d].op = igCall[d].op
        BY <1>1, <2>1, <3>2 DEF Kept, Reporting
      <4> QED BY <4>1 DEF IgInv, IgHistory
    <3> QED BY <3>1, <3>2
  <2>2. AllStates' \subseteq AllStates \cup Resets
    BY <1>6 DEF AllStates
  <2> QED BY <2>1, <2>2, HistoryStays DEF IgInv
<1>8. Excused5 => Excused5'
  BY DEF Excused5
<1>9. IgHasState'
  <2>1. igInfo' # Ingress!NoInfo /\ igState' = Ingress!NoState => Ingress!Creating' \/ Excused5'
    BY <1>1, <1>8 DEF IgInv, IgHasState, Ingress!Creating, Kept
  <2>2. Ingress!InfoHasState'
    BY <1>8 DEF IgInv, IgHasState, Ingress!InfoHasState, Excused5
  <2>3. ASSUME NEW d \in IgCallers
        PROVE  /\ igCall'[d].pc = "decide" /\ igCall'[d].seen = Ingress!NoState => Excused5'
               /\ igCall'[d].pc \in {"stx", "sexec", "tell"} /\ igCall'[d].op # "create" =>
                    IF igCall'[d].was = Ingress!NoState THEN Excused5'
                    ELSE igState' # Ingress!NoState \/ "gone" \in igExcused'
               /\ igCall'[d].pc = "sexec" /\ igCall'[d].op = "create"
                    /\ igCall'[d].oldState # Ingress!NoState =>
                    igState' # Ingress!NoState \/ Excused5'
    BY <1>1, <1>8, <2>3 DEF IgInv, IgHasState, Kept
  <2> QED BY <2>1, <2>2, <2>3 DEF IgHasState
<1>10. IgLast'
  BY <1>1 DEF IgInv, IgLast, Kept, Settled
<1>11. IgOrder'
  <2>1. ASSUME "overtaken" \notin igExcused', NEW e \in IgCallers, igCall'[e].op = "report"
        PROVE  /\ \A d \in IgCallers : igCall'[d].op = "report" => e = d
               /\ \A t \in Arrived' : NotLater(t, igCall'[e].rep)
    <3>1. /\ "overtaken" \notin igExcused /\ igCall[e].op = "report" /\ igCall'[e].rep = igCall[e].rep
          /\ \A d \in IgCallers : igCall'[d].op = "report" => igCall[d].op = "report"
      BY <1>1, <2>1 DEF Kept
    <3>2. \A t \in Arrived : NotLater(t, igCall[e].rep)
      BY <3>1 DEF IgInv, IgOrder
    <3>3. \A t \in Resets : NotLater(t, igCall[e].rep)
      BY <3>2 DEF Resets, NotLater
    <3> QED BY <1>6, <3>1, <3>2, <3>3 DEF IgInv, IgOrder
  <2> QED BY <2>1 DEF IgOrder, NotLater
<1>12. IgTells'
  BY <1>1 DEF IgInv, IgTells, Kept
<1> QED BY <1>2, <1>3, <1>4, <1>5, <1>7, <1>9, <1>10, <1>11, <1>12 DEF IgInv

IgExcuses == {"overtaken", "creating", "gone", "moved", "revived", "gaveUp", "failed"}
LEMMA IgTypesStay ==
  ASSUME IgTypes, igCall' \in [IgCallers -> IgWork],
         UNCHANGED <<igInfo, igKey, igIndex>>, UNCHANGED <<igState, igSession, igSent>>,
         igExcused' \subseteq IgExcuses, igUsed' \in [calls : Nat, foreign : Nat, faults : Nat],
         igPanicked' \in BOOLEAN
  PROVE  IgTypes'
BY DEF IgTypes, Ingress!IgTypeOK, IgExcuses

LEMMA IgCallOf ==
  ASSUME IgInv, NEW c \in IgCallers
  PROVE  /\ igCall \in [IgCallers -> IgWork] /\ igCall[c] \in IgWork /\ IgAt(igCall[c])
         /\ igCall[c].op = "idle" => igCall[c].pc = "none"
         /\ igUsed \in [calls : Nat, foreign : Nat, faults : Nat] /\ igPanicked \in BOOLEAN
         /\ igExcused \subseteq IgExcuses
         /\ igUsed.calls = 0 => igCall[c].op = "idle"
BY DEF IgInv, IgTypes, IgShape, IgAt, Ingress!IgTypeOK, IgExcuses, IgFirst

(* A new call of the service.                                               *)
LEMMA IgBegins ==
  ASSUME IgInv, NEW c \in IgCallers, NEW op \in {"create", "update", "delete"}, NEW k \in IgWork,
         k.op = op, Ingress!Begin(c, op, k)
  PROVE  /\ Others(c) /\ igCall'[c] = k /\ igCall[c].op = "idle" /\ igCall[c].pc = "none"
         /\ igUsed' \in [calls : Nat, foreign : Nat, faults : Nat] /\ igUsed'.calls # 0
<1>1. /\ igCall' = [igCall EXCEPT ![c] = k] /\ igCall[c].op = "idle"
      /\ igUsed' = [igUsed EXCEPT !.calls = @ + 1]
  BY DEF Ingress!Begin
<1>2. /\ igCall' \in [IgCallers -> IgWork] /\ igCall'[c] = k
      /\ \A d \in IgCallers : d # c => igCall'[d] = igCall[d]
  BY <1>1, IgCallOf
<1>3. igUsed' \in [calls : Nat, foreign : Nat, faults : Nat] /\ igUsed'.calls # 0
  BY <1>1, IgCallOf
<1> QED BY <1>1, <1>2, <1>3, IgCallOf DEF Others, Kept

LEMMA IgUpdateBegins ==
  ASSUME IgInv, NEW c \in IgCallers, Ingress!UpdateIngress(c) \/ Ingress!DeleteIngress(c)
  PROVE  IgInv'
<1>1. PICK op \in {"update", "delete"}, k \in IgWork :
        k.op = op /\ k.pc = "load" /\ Ingress!Begin(c, op, k)
  <2>1. CASE Ingress!UpdateIngress(c)
    <3>1. PICK room \in IgSomeRooms :
            Ingress!Begin(c, "update", [Ingress!NoCall EXCEPT !.op = "update", !.pc = "load", !.req = room])
      BY <2>1, Zenon DEF Ingress!UpdateIngress, IgSomeRooms
    <3>2. PICK k : k = [Ingress!NoCall EXCEPT !.op = "update", !.pc = "load", !.req = room]
      OBVIOUS
    <3>3. k \in IgWork /\ k.op = "update" /\ k.pc = "load"
      BY <3>2, IgValues DEF IgWork, IgPcs
    <3> QED BY <3>1, <3>2, <3>3
  <2>2. CASE Ingress!DeleteIngress(c)
    <3>1. Ingress!Begin(c, "delete", [Ingress!NoCall EXCEPT !.op = "delete", !.pc = "load"])
      BY <2>2 DEF Ingress!DeleteIngress
    <3>2. PICK k : k = [Ingress!NoCall EXCEPT !.op = "delete", !.pc = "load"]
      OBVIOUS
    <3>3. k \in IgWork /\ k.op = "delete" /\ k.pc = "load"
      BY <3>2, IgValues DEF IgWork, IgPcs
    <3> QED BY <3>1, <3>2, <3>3
  <2> QED BY <2>1, <2>2
<1>2. /\ UNCHANGED <<igLimits, igInfo, igKey, igIndex>>
      /\ UNCHANGED <<igState, igSession, igSent, igTold>> /\ UNCHANGED <<igExcused, igPanicked>>
  BY Zenon DEF Ingress!UpdateIngress, Ingress!DeleteIngress
<1>3. /\ Others(c) /\ igCall'[c] = k /\ igCall[c].op = "idle" /\ igCall[c].pc = "none"
      /\ igUsed' \in [calls : Nat, foreign : Nat, faults : Nat] /\ igUsed'.calls # 0
  BY <1>1, IgBegins
<1>4. IgTypes'
  BY <1>2, <1>3, IgTypesStay, IgCallOf DEF IgInv, Others
<1>5. /\ igCall'[c].op \in {"update", "delete"} /\ igCall'[c].pc = "load" /\ IgAt(igCall'[c])
      /\ ~Reporting(igCall'[c])
  BY <1>1, <1>3 DEF IgAt, Reporting
<1> QED BY <1>2, <1>3, <1>4, <1>5, IgMoveKeeps

LEMMA IgLoadInfoKeeps ==
  ASSUME IgInv, NEW c \in IgCallers, Ingress!LoadInfo(c)
  PROVE  IgInv'
<1>1. /\ UNCHANGED <<igLimits, igInfo, igKey, igIndex>>
      /\ UNCHANGED <<igState, igSession, igSent, igTold>> /\ UNCHANGED <<igPanicked, igUsed>>
      /\ igCall[c].pc \in {"load", "rload"}
  BY DEF Ingress!LoadInfo
<1>2. CASE igInfo # Ingress!NoInfo
  <2>1. PICK p : p = IF igCall[c].pc = "load" THEN "loadState" ELSE "rloadState"
    OBVIOUS
  <2>2. PICK r : r = IF igCall[c].pc = "load" THEN igInfo ELSE igCall[c].room
    OBVIOUS
  <2>3. igCall' = [igCall EXCEPT ![c].pc = p, ![c].room = r] /\ UNCHANGED igExcused
    BY <1>2, <2>1, <2>2 DEF Ingress!LoadInfo
  <2>4. r \in IgSomeRooms /\ p \in IgPcs
    BY <1>2, <2>1, <2>2, IgCallOf DEF IgInv, IgTypes, Ingress!IgTypeOK, IgSomeRooms, IgWork, IgPcs
  <2>5. igCall' \in [IgCallers -> IgWork] /\ \A d \in IgCallers : d # c => igCall'[d] = igCall[d]
    BY <2>3, <2>4, IgCallOf DEF IgWork
  <2>6. /\ igCall'[c].pc = p /\ igCall'[c].op = igCall[c].op /\ igCall'[c].rep = igCall[c].rep
        /\ igCall'[c].was = igCall[c].was
    BY <2>3, IgCallOf DEF IgWork
  <2>7. Others(c)
    BY <2>5 DEF Others, Kept
  <2>8. IgTypes'
    BY <1>1, <2>3, <2>5, IgTypesStay, IgCallOf DEF IgInv
  <2>9. /\ p \in {"loadState", "rloadState"} /\ IgAt(igCall'[c])
        /\ igCall[c].op \in {"update", "delete", "report"}
        /\ Reporting(igCall'[c]) => Reporting(igCall[c])
    BY <1>1, <2>1, <2>6, IgCallOf DEF IgAt, IgWork, Reporting
  <2>10. Reporting(igCall'[c]) =>
           /\ igCall'[c].rep \in Arrived /\ igCall'[c].rep # Ingress!NoState
           /\ igCall'[c].op = "update" =>
                LastOfSession(igCall'[c].rep) /\ igCall'[c].rep.status = "inactive"
    BY <2>6, <2>9, ArrivedHas DEF IgInv, IgHistory
  <2>11. igUsed'.calls = 0 => igUsed.calls = 0 /\ igCall'[c].op = "idle"
    BY <1>1, <2>9, IgCallOf
  <2> QED BY <1>1, <1>2, <2>3, <2>6, <2>7, <2>8, <2>9, <2>10, <2>11, IgMoveKeeps
<1>3. CASE igInfo = Ingress!NoInfo
  <2>1. /\ IF igCall[c].pc = "load" THEN Ingress!Ends(c) ELSE Ingress!StateFails(c)
        /\ IF igCall[c].op = "report" THEN igExcused' = igExcused \cup {"gone"}
                                      ELSE UNCHANGED igExcused
    BY <1>3 DEF Ingress!LoadInfo, Ingress!Excuse
  <2>2. /\ Others(c) /\ igCall[c].op \in {"update", "delete", "report"}
        /\ \/ Ended(c)
           \/ igCall[c].pc = "rload" /\ igCall[c].op = "update" /\ Moved(c, "tx")
    BY <1>1, <2>1, IgEnds, IgStateFails, IgCallOf DEF IgAt, IgWork
  <2>3. igExcused \subseteq igExcused' /\ igExcused' \subseteq IgExcuses
    BY <2>1, IgCallOf DEF IgExcuses
  <2>4. IgTypes'
    BY <1>1, <2>2, <2>3, IgTypesStay, IgCallOf DEF IgInv, Others
  <2>5. /\ IgAt(igCall'[c]) /\ ~Reporting(igCall'[c]) /\ igCall'[c].pc \in {"none", "tx"}
        /\ igCall'[c].op \in {"idle", "update"}
        /\ igCall'[c].pc = "none" \/ igCall[c].pc = "rload"
    BY <2>2 DEF IgAt, Ended, Moved, Reporting
  <2>6. igCall[c].op = "report" => "gone" \in igExcused'
    BY <2>1
  <2>7. igUsed'.calls = 0 => igUsed.calls = 0 /\ igCall'[c].op = "idle"
    BY <1>1, <2>2, IgCallOf
  <2> QED BY <1>1, <2>2, <2>3, <2>4, <2>5, <2>6, <2>7, IgMoveKeeps
<1> QED BY <1>2, <1>3

(* A call that ends, or an update that goes on without the state.           *)
LEMMA IgLeaveKeeps ==
  ASSUME IgInv, NEW c \in IgCallers, Others(c),
         UNCHANGED <<igLimits, igInfo, igKey, igIndex>>,
         UNCHANGED <<igState, igSession, igSent, igTold>>,
         igExcused \subseteq igExcused', igExcused' \subseteq IgExcuses,
         igUsed' \in [calls : Nat, foreign : Nat, faults : Nat], igUsed'.calls = igUsed.calls,
         igPanicked' \in BOOLEAN, igCall[c].op # "idle", igCall[c].pc # "tell",
         \/ Ended(c)
         \/ Moved(c, "tx") /\ igCall[c].op = "update" /\ igCall[c].pc # "load",
         igCall[c].op = "create" => igState # Ingress!NoState \/ Excused5',
         igPanicked' => igPanicked \/ Excused5',
         igCall[c].op = "report" /\ igCall[c].rep = igSession =>
           igExcused' \cap {"gone", "revived", "gaveUp", "failed"} # {} \/ Settled
  PROVE  IgInv'
<1>1. IgTypes'
  BY IgTypesStay DEF IgInv, Others
<1>2. /\ IgAt(igCall'[c]) /\ ~Reporting(igCall'[c]) /\ igCall'[c].pc \in {"none", "tx"}
      /\ igCall'[c].op \in {"idle", "update"}
      /\ igCall'[c].pc = "none" \/ igCall[c].pc \notin {"none", "load"}
  BY IgCallOf DEF IgAt, Ended, Moved, Reporting
<1>3. igUsed'.calls = 0 => igUsed.calls = 0 /\ igCall'[c].op = "idle"
  BY IgCallOf
<1> QED BY <1>1, <1>2, <1>3, IgMoveKeeps

LEMMA IgLoadStateKeeps ==
  ASSUME IgInv, NEW c \in IgCallers, Ingress!LoadState(c)
  PROVE  IgInv'
<1>1. /\ UNCHANGED <<igLimits, igInfo, igKey, igIndex>>
      /\ UNCHANGED <<igState, igSession, igSent, igTold>> /\ UNCHANGED <<igPanicked, igUsed>>
      /\ igCall[c].pc \in {"loadState", "rloadState"}
      /\ igExcused' = igExcused
           \cup (IF igState = Ingress!NoState /\ Ingress!Creating THEN {"creating"} ELSE {})
           \cup (IF igInfo = Ingress!NoInfo THEN {"gone"} ELSE {})
  BY DEF Ingress!LoadState
<1>2. igExcused \subseteq igExcused' /\ igExcused' \subseteq IgExcuses
  BY <1>1, IgCallOf DEF IgExcuses
<1>3. igState = Ingress!NoState => Excused5'
  <2>1. Excused5 => Excused5'
    BY <1>2 DEF Excused5
  <2>2. Ingress!Creating /\ igState = Ingress!NoState => "creating" \in igExcused'
    BY <1>1
  <2>3. igInfo = Ingress!NoInfo => "gone" \in igExcused'
    BY <1>1
  <2> QED BY <2>1, <2>2, <2>3 DEF IgInv, IgHasState, Excused5
<1>4. igState \in Ingress!States
  BY DEF IgInv, IgTypes, Ingress!IgTypeOK
<1>5. CASE igCall[c].pc = "loadState"
  <2>1. igCall' = [igCall EXCEPT ![c].pc = "decide", ![c].seen = igState]
    BY <1>5 DEF Ingress!LoadState
  <2>2. "decide" \in IgPcs
    BY DEF IgPcs
  <2>3. igCall' \in [IgCallers -> IgWork] /\ \A d \in IgCallers : d # c => igCall'[d] = igCall[d]
    BY <1>4, <2>1, <2>2, IgCallOf DEF IgWork
  <2>4. igCall'[c].pc = "decide" /\ igCall'[c].op = igCall[c].op /\ igCall'[c].seen = igState
    BY <2>1, IgCallOf DEF IgWork
  <2>5. Others(c)
    BY <2>3 DEF Others, Kept
  <2>6. IgTypes'
    BY <1>1, <1>2, <2>3, IgTypesStay, IgCallOf DEF IgInv
  <2>7. /\ IgAt(igCall'[c]) /\ ~Reporting(igCall'[c])
        /\ igCall[c].op \in {"update", "delete"}
    BY <1>5, <2>4, IgCallOf DEF IgAt, IgWork, Reporting
  <2>8. igUsed'.calls = 0 => igUsed.calls = 0 /\ igCall'[c].op = "idle"
    BY <1>1, <2>7, IgCallOf
  <2>9. igState \in Arrived
    BY ArrivedHas
  <2> QED BY <1>1, <1>2, <1>3, <1>5, <2>4, <2>5, <2>6, <2>7, <2>8, <2>9, IgMoveKeeps
<1>6. CASE igCall[c].pc = "rloadState"
  <2>1. igCall' = [igCall EXCEPT ![c].pc = "stx", ![c].was = igState, ![c].tries = 0]
    BY <1>6 DEF Ingress!LoadState
  <2>2. "stx" \in IgPcs /\ 0 \in Int
    BY DEF IgPcs
  <2>3. igCall' \in [IgCallers -> IgWork] /\ \A d \in IgCallers : d # c => igCall'[d] = igCall[d]
    <3>1. PICK k : k = [igCall[c] EXCEPT !.pc = "stx", !.was = igState, !.tries = 0]
      OBVIOUS
    <3>2. k \in IgWork
      BY <1>4, <2>2, <3>1, IgCallOf, ZenonT(60) DEF IgWork
    <3>3. igCall' = [igCall EXCEPT ![c] = k]
      BY <2>1, <3>1
    <3> QED BY <3>2, <3>3, IgCallOf
  <2>4. /\ igCall'[c].pc = "stx" /\ igCall'[c].op = igCall[c].op /\ igCall'[c].was = igState
        /\ igCall'[c].rep = igCall[c].rep
    BY <2>1, IgCallOf DEF IgWork
  <2>5. Others(c)
    BY <2>3 DEF Others, Kept
  <2>6. IgTypes'
    BY <1>1, <1>2, <2>3, IgTypesStay, IgCallOf DEF IgInv
  <2>7. /\ IgAt(igCall'[c]) /\ Reporting(igCall[c]) /\ Reporting(igCall'[c])
        /\ igCall[c].op \in {"update", "report"}
    BY <1>6, <2>4, IgCallOf DEF IgAt, IgWork, Reporting
  <2>8. igUsed'.calls = 0 => igUsed.calls = 0 /\ igCall'[c].op = "idle"
    BY <1>1, <2>7, IgCallOf
  <2>9. /\ igCall'[c].rep \in Arrived /\ igCall'[c].rep # Ingress!NoState
        /\ igCall'[c].op = "update" =>
             LastOfSession(igCall'[c].rep) /\ igCall'[c].rep.status = "inactive"
    BY <2>4, <2>7, ArrivedHas DEF IgInv, IgHistory
  <2> QED BY <1>1, <1>2, <1>3, <1>6, <2>4, <2>5, <2>6, <2>7, <2>8, <2>9, IgMoveKeeps
<1> QED BY <1>1, <1>5, <1>6

LEMMA IgUpdateDecidesKeeps ==
  ASSUME IgInv, NEW c \in IgCallers, Ingress!UpdateDecides(c)
  PROVE  IgInv'
<1>1. /\ UNCHANGED <<igLimits, igInfo, igKey, igIndex>>
      /\ UNCHANGED <<igState, igSession, igSent, igTold>> /\ UNCHANGED <<igExcused, igUsed>>
      /\ igCall[c].pc = "decide" /\ igCall[c].op = "update"
      /\ \/ Ingress!Ends(c) /\ UNCHANGED igPanicked
         \/ igCall[c].seen = Ingress!NoState /\ igPanicked' = TRUE /\ Ingress!Ends(c)
         \/ /\ igCall[c].seen # Ingress!NoState /\ UNCHANGED igPanicked
            /\ igCall' = [igCall EXCEPT
                 ![c].room = IF igCall[c].req = Ingress!NoRoom \/ igCall[c].seen.status = "complete"
                             THEN igCall[c].room ELSE igCall[c].req,
                 ![c].rep = [igCall[c].seen EXCEPT !.status = "inactive"],
                 ![c].pc = IF igCall[c].seen.status = "error" THEN "rload" ELSE "tx"]
  BY DEF Ingress!UpdateDecides
<1>2. igExcused \subseteq IgExcuses /\ igUsed \in [calls : Nat, foreign : Nat, faults : Nat]
  BY IgCallOf
<1>3. CASE Ingress!Ends(c) /\ (igCall[c].seen = Ingress!NoState \/ UNCHANGED igPanicked)
           /\ igPanicked' \in BOOLEAN
  <2>1. Others(c) /\ Ended(c)
    BY <1>3, IgEnds, IgCallOf
  <2>2. igPanicked' => igPanicked \/ Excused5'
    <3>1. igCall[c].seen = Ingress!NoState => Excused5
      BY <1>1 DEF IgInv, IgHasState
    <3> QED BY <1>1, <1>3, <3>1 DEF Excused5
  <2> QED BY <1>1, <1>2, <1>3, <2>1, <2>2, IgLeaveKeeps
<1>4. ASSUME igCall[c].seen # Ingress!NoState, UNCHANGED igPanicked,
             igCall' = [igCall EXCEPT
                 ![c].room = IF igCall[c].req = Ingress!NoRoom \/ igCall[c].seen.status = "complete"
                             THEN igCall[c].room ELSE igCall[c].req,
                 ![c].rep = [igCall[c].seen EXCEPT !.status = "inactive"],
                 ![c].pc = IF igCall[c].seen.status = "error" THEN "rload" ELSE "tx"]
      PROVE  IgInv'
  <2>1. PICK r : r = IF igCall[c].req = Ingress!NoRoom \/ igCall[c].seen.status = "complete"
                     THEN igCall[c].room ELSE igCall[c].req
    OBVIOUS
  <2>2. PICK s : s = [igCall[c].seen EXCEPT !.status = "inactive"]
    OBVIOUS
  <2>3. PICK p : p = IF igCall[c].seen.status = "error" THEN "rload" ELSE "tx"
    OBVIOUS
  <2>4. igCall' = [igCall EXCEPT ![c].room = r, ![c].rep = s, ![c].pc = p]
    BY <1>4, <2>1, <2>2, <2>3
  <2>5. /\ s \in Ingress!States /\ s.status = "inactive" /\ s.start = igCall[c].seen.start
        /\ s.upd = igCall[c].seen.upd
    BY <2>2, IgCallOf DEF IgWork, Ingress!States, Ingress!Active
  <2>6. r \in IgSomeRooms /\ p \in IgPcs
    BY <2>1, <2>3, IgCallOf DEF IgWork, IgPcs
  <2>7. igCall' \in [IgCallers -> IgWork] /\ \A d \in IgCallers : d # c => igCall'[d] = igCall[d]
    BY <2>4, <2>5, <2>6, IgCallOf DEF IgWork
  <2>8. igCall'[c].pc = p /\ igCall'[c].op = igCall[c].op /\ igCall'[c].rep = s
    BY <2>4, IgCallOf DEF IgWork
  <2>9. Others(c)
    BY <2>7 DEF Others, Kept
  <2>10. IgTypes'
    BY <1>1, <1>2, <1>4, <2>7, IgTypesStay, IgCallOf DEF IgInv
  <2>11. /\ IgAt(igCall'[c]) /\ p \in {"rload", "tx"}
         /\ Reporting(igCall'[c]) => igCall[c].seen.status = "error"
    BY <1>1, <2>3, <2>8 DEF IgAt, Reporting
  <2>12. igUsed'.calls = 0 => igUsed.calls = 0 /\ igCall'[c].op = "idle"
    BY <1>1, IgCallOf
  <2>13. ASSUME Reporting(igCall'[c])
         PROVE  /\ s \in Arrived \cup Resets /\ s # Ingress!NoState
                /\ LastOfSession(s) /\ s.status = "inactive"
    <3>1. igCall[c].seen \in Arrived /\ igCall[c].seen.status = "error"
      BY <1>1, <2>11, <2>13, ArrivedHas
    <3>2. s \in Resets /\ s # Ingress!NoState
      BY <2>5, <3>1, IgValues DEF Resets
    <3>3. LastOfSession(igCall[c].seen)
      BY <3>1 DEF IgInv, IgHistory, AllStates
    <3> QED BY <2>5, <3>2, <3>3 DEF LastOfSession
  <2> QED BY <1>1, <1>4, <2>8, <2>9, <2>10, <2>11, <2>12, <2>13, IgMoveKeeps, Zenon
<1> QED BY <1>1, <1>3, <1>4, IgCallOf

LEMMA IgReadRoomKeeps ==
  ASSUME IgInv, NEW c \in IgCallers, Ingress!ReadRoom(c)
  PROVE  IgInv'
<1>1. /\ UNCHANGED <<igLimits, igInfo, igKey, igIndex>>
      /\ UNCHANGED <<igState, igSession, igSent, igTold>> /\ UNCHANGED <<igExcused, igPanicked, igUsed>>
      /\ igCall[c].pc = "tx"
      /\ igCall' = [igCall EXCEPT ![c].pc = "exec", ![c].old = igInfo, ![c].dirty = FALSE]
  BY DEF Ingress!ReadRoom
<1>2. "exec" \in IgPcs /\ igInfo \in IgSomeRooms \cup {Ingress!NoInfo}
  BY DEF IgPcs, IgInv, IgTypes, Ingress!IgTypeOK, IgSomeRooms
<1>3. igCall' \in [IgCallers -> IgWork] /\ \A d \in IgCallers : d # c => igCall'[d] = igCall[d]
  <2>1. PICK k : k = [igCall[c] EXCEPT !.pc = "exec", !.old = igInfo, !.dirty = FALSE]
    OBVIOUS
  <2>2. k \in IgWork
    <3>1. FALSE \in BOOLEAN
      OBVIOUS
    <3> QED BY <1>2, <2>1, <3>1, IgCallOf, Zenon DEF IgWork
  <2>3. igCall' = [igCall EXCEPT ![c] = k]
    BY <1>1, <2>1
  <2> QED BY <2>2, <2>3, IgCallOf
<1>4. /\ igCall'[c].pc = "exec" /\ igCall'[c].op = igCall[c].op /\ igCall'[c].old = igInfo
      /\ igCall'[c].rep = igCall[c].rep
  BY <1>1, IgCallOf DEF IgWork
<1>5. Others(c)
  BY <1>3 DEF Others, Kept
<1>6. IgTypes'
  BY <1>1, <1>3, IgTypesStay, IgCallOf DEF IgInv
<1>7. /\ IgAt(igCall'[c]) /\ ~Reporting(igCall'[c]) /\ igCall[c].op \in {"create", "update"}
  BY <1>1, <1>4, IgCallOf DEF IgAt, IgWork, Reporting
<1>8. igUsed'.calls = 0 => igUsed.calls = 0 /\ igCall'[c].op = "idle"
  BY <1>1, <1>7, IgCallOf
<1> QED BY <1>1, <1>4, <1>5, <1>6, <1>7, <1>8, IgMoveKeeps

LEMMA IgRetryInfoKeeps ==
  ASSUME IgInv, NEW c \in IgCallers, Ingress!RetryInfo(c)
  PROVE  IgInv'
<1>1. /\ UNCHANGED <<igLimits, igInfo, igKey, igIndex>>
      /\ UNCHANGED <<igState, igSession, igSent, igTold>> /\ UNCHANGED <<igPanicked, igUsed>>
      /\ igCall[c].pc = "exec"
      /\ \/ /\ igCall' = [igCall EXCEPT ![c].pc = "tx", ![c].tries = igCall[c].tries + 1]
            /\ UNCHANGED igExcused
         \/ /\ igExcused' = igExcused \cup {"gaveUp"} /\ igCall[c].op = "create"
            /\ igCall' = [igCall EXCEPT ![c].pc = "stx", ![c].tries = 0]
         \/ /\ igExcused' = igExcused \cup {"gaveUp"} /\ igCall[c].op # "create"
            /\ Ingress!Ends(c)
  BY DEF Ingress!RetryInfo, Ingress!Excuse
<1>2. /\ igExcused \subseteq igExcused' /\ igExcused' \subseteq IgExcuses
      /\ igUsed \in [calls : Nat, foreign : Nat, faults : Nat] /\ igPanicked \in BOOLEAN
      /\ igCall[c].op \in {"create", "update"} /\ igCall[c].tries + 1 \in Int /\ 0 \in Int
  BY <1>1, IgCallOf DEF IgExcuses, IgAt, IgWork
<1>3. CASE igCall' = [igCall EXCEPT ![c].pc = "tx", ![c].tries = igCall[c].tries + 1]
           /\ UNCHANGED igExcused
  <2>1. "tx" \in IgPcs
    BY DEF IgPcs
  <2>2. Others(c) /\ Moved(c, "tx")
    BY <1>2, <1>3, <2>1, IgMovesTries, IgCallOf
  <2>3. IgTypes'
    BY <1>1, <1>2, <2>2, IgTypesStay, IgCallOf DEF IgInv, Others
  <2>4. IgAt(igCall'[c]) /\ ~Reporting(igCall'[c])
    BY <1>1, <1>2, <2>2, IgCallOf DEF IgAt, Moved, Reporting
  <2>5. igUsed'.calls = 0 => igUsed.calls = 0 /\ igCall'[c].op = "idle"
    BY <1>1, <1>2, IgCallOf
  <2> QED BY <1>1, <1>2, <2>2, <2>3, <2>4, <2>5, IgMoveKeeps DEF Moved
<1>4. CASE /\ igExcused' = igExcused \cup {"gaveUp"} /\ igCall[c].op = "create"
           /\ igCall' = [igCall EXCEPT ![c].pc = "stx", ![c].tries = 0]
  <2>1. "stx" \in IgPcs
    BY DEF IgPcs
  <2>2. Others(c) /\ Moved(c, "stx")
    BY <1>2, <1>4, <2>1, IgMovesTries, IgCallOf
  <2>3. IgTypes'
    BY <1>1, <1>2, <2>2, IgTypesStay, IgCallOf DEF IgInv, Others
  <2>4. IgAt(igCall'[c]) /\ igCall'[c].rep = Ingress!Fresh
    BY <1>1, <1>4, <2>2, IgCallOf DEF IgAt, Moved
  <2>5. igUsed'.calls = 0 => igUsed.calls = 0 /\ igCall'[c].op = "idle"
    BY <1>1, <1>2, IgCallOf
  <2>6. igCall'[c].rep \in Arrived \cup Resets /\ igCall'[c].rep # Ingress!NoState
    BY <2>4, IgValues, ArrivedHas
  <2>7. Excused5'
    BY <1>4 DEF Excused5
  <2> QED BY <1>1, <1>2, <1>4, <2>2, <2>3, <2>4, <2>5, <2>6, <2>7, IgMoveKeeps, Zenon DEF Moved
<1>5. CASE /\ igExcused' = igExcused \cup {"gaveUp"} /\ igCall[c].op # "create"
           /\ Ingress!Ends(c)
  <2>1. Others(c) /\ Ended(c)
    BY <1>5, IgEnds, IgCallOf
  <2> QED BY <1>1, <1>2, <1>5, <2>1, IgLeaveKeeps
<1> QED BY <1>1, <1>3, <1>4, <1>5

LEMMA IgReadStateKeeps ==
  ASSUME IgInv, NEW c \in IgCallers, Ingress!ReadState(c)
  PROVE  IgInv'
<1>1. /\ UNCHANGED <<igLimits, igInfo, igKey, igIndex>>
      /\ UNCHANGED <<igState, igSession, igSent, igTold>> /\ UNCHANGED <<igExcused, igPanicked, igUsed>>
      /\ igCall[c].pc = "stx"
      /\ igCall' = [igCall EXCEPT ![c].pc = "sexec", ![c].oldState = igState, ![c].dirty = FALSE]
  BY DEF Ingress!ReadState
<1>2. "sexec" \in IgPcs /\ igState \in Ingress!States
  BY DEF IgPcs, IgInv, IgTypes, Ingress!IgTypeOK
<1>3. igCall' \in [IgCallers -> IgWork] /\ \A d \in IgCallers : d # c => igCall'[d] = igCall[d]
  <2>1. PICK k : k = [igCall[c] EXCEPT !.pc = "sexec", !.oldState = igState, !.dirty = FALSE]
    OBVIOUS
  <2>2. k \in IgWork
    <3>1. FALSE \in BOOLEAN
      OBVIOUS
    <3> QED BY <1>2, <2>1, <3>1, IgCallOf, Zenon DEF IgWork
  <2>3. igCall' = [igCall EXCEPT ![c] = k]
    BY <1>1, <2>1
  <2> QED BY <2>2, <2>3, IgCallOf
<1>4. /\ igCall'[c].pc = "sexec" /\ igCall'[c].op = igCall[c].op /\ igCall'[c].oldState = igState
      /\ igCall'[c].rep = igCall[c].rep /\ igCall'[c].was = igCall[c].was
  BY <1>1, IgCallOf DEF IgWork
<1>5. Others(c)
  BY <1>3 DEF Others, Kept
<1>6. IgTypes'
  BY <1>1, <1>3, IgTypesStay, IgCallOf DEF IgInv
<1>7. /\ IgAt(igCall'[c]) /\ Reporting(igCall[c]) /\ igCall[c].op # "idle"
  BY <1>1, <1>4, IgCallOf DEF IgAt, Reporting
<1>8. igUsed'.calls = 0 => igUsed.calls = 0 /\ igCall'[c].op = "idle"
  BY <1>1, <1>7, IgCallOf
<1>9. /\ igCall'[c].rep \in Arrived \cup Resets /\ igCall'[c].rep # Ingress!NoState
      /\ igCall'[c].op = "update" =>
           LastOfSession(igCall'[c].rep) /\ igCall'[c].rep.status = "inactive"
  BY <1>4, <1>7, ArrivedHas DEF IgInv, IgHistory
<1>10. igCall'[c].op # "create" =>
         IF igCall'[c].was = Ingress!NoState THEN Excused5'
         ELSE igState # Ingress!NoState \/ "gone" \in igExcused'
  BY <1>1, <1>4 DEF IgInv, IgHasState, Excused5
<1>11. igState \in Arrived
  BY ArrivedHas
<1> QED BY <1>1, <1>4, <1>5, <1>6, <1>7, <1>8, <1>9, <1>10, <1>11, IgMoveKeeps, Zenon

(* The times of the state that a transaction read are past ones.            *)
LEMMA IgOldTimes ==
  ASSUME IgInv, NEW c \in IgCallers, igCall[c].pc = "sexec"
  PROVE  /\ Past(igCall[c].rep) /\ Past(Ingress!OldTimes(igCall[c]))
         /\ igCall[c].rep \in Ingress!States /\ igSession \in Ingress!States
         /\ Ingress!OldTimes(igCall[c]) \in Arrived \cap Ingress!States
         /\ igCall[c].oldState = Ingress!NoState =>
              Ingress!OldTimes(igCall[c]) = Ingress!Fresh
         /\ igCall[c].oldState # Ingress!NoState =>
              Ingress!OldTimes(igCall[c]) = igCall[c].oldState
<1>1. /\ igCall[c].rep \in Arrived /\ igCall[c].oldState \in Arrived /\ Ingress!Fresh \in Arrived
  BY ArrivedHas DEF Reporting
<1>2. igCall[c].rep # Ingress!NoState
  BY DEF IgInv, IgHistory, Reporting
<1>3. Ingress!OldTimes(igCall[c]) \in Arrived /\ Ingress!OldTimes(igCall[c]) # Ingress!NoState
  BY <1>1, IgValues DEF Ingress!OldTimes
<1>4. \A s \in Arrived : s # Ingress!NoState => Past(s)
  BY DEF IgInv, IgHistory, AllStates
<1>5. Ingress!OldTimes(igCall[c]) \in Ingress!States
  BY IgCallOf, IgValues DEF Ingress!OldTimes, IgWork
<1>6. igCall[c].rep \in Ingress!States /\ igSession \in Ingress!States
  BY IgCallOf DEF IgWork, IgInv, IgTypes, Ingress!IgTypeOK
<1> QED BY <1>1, <1>2, <1>3, <1>4, <1>5, <1>6 DEF Ingress!OldTimes

LEMMA IgRefuseStateKeeps ==
  ASSUME IgInv, NEW c \in IgCallers, Ingress!RefuseState(c)
  PROVE  IgInv'
<1>1. /\ UNCHANGED <<igLimits, igInfo, igKey, igIndex>>
      /\ UNCHANGED <<igState, igSession, igSent, igTold>> /\ UNCHANGED <<igExcused, igPanicked, igUsed>>
      /\ igCall[c].pc = "sexec" /\ Ingress!OutOfDate(igCall[c]) /\ Ingress!StateFails(c)
  BY DEF Ingress!RefuseState
<1>2. igCall[c].rep.start < Ingress!OldTimes(igCall[c]).start
  BY <1>1 DEF Ingress!OutOfDate
<1>3. igCall[c].rep # igSession
  BY <1>1, <1>2, IgOldTimes DEF Past, Ingress!States
<1>4. igCall[c].op = "create" => igState # Ingress!NoState \/ Excused5'
  <2>1. igCall[c].op = "create" => igCall[c].oldState # Ingress!NoState
    BY <1>1, <1>2, IgOldTimes, IgCallOf, IgValues DEF IgAt
  <2> QED BY <1>1, <2>1 DEF IgInv, IgHasState, Excused5
<1>5. /\ Others(c) /\ igCall[c].op # "idle"
      /\ \/ Ended(c)
         \/ igCall[c].op = "update" /\ Moved(c, "tx")
  BY <1>1, IgStateFails, IgCallOf DEF IgAt
<1> QED BY <1>1, <1>3, <1>4, <1>5, IgLeaveKeeps, IgCallOf

(* A call of UpdateIngressState that has come through tells.                *)
LEMMA IgToTellKeeps ==
  ASSUME IgInv, NEW c \in IgCallers, Ingress!Goes(c, "tell"), igCall[c].pc = "sexec",
         igCall[c].op # "create",
         UNCHANGED <<igLimits, igInfo, igKey, igIndex>>,
         UNCHANGED <<igState, igSession, igSent, igTold>>, UNCHANGED <<igPanicked, igUsed>>,
         igExcused \subseteq igExcused', igExcused' \subseteq IgExcuses,
         igCall[c].op = "report" /\ igCall[c].rep = igSession =>
           igExcused' \cap {"gone", "revived", "gaveUp", "failed"} # {} \/ Settled,
         igExcused' \cap {"overtaken", "creating", "gone", "revived", "gaveUp", "failed"} # {}
  PROVE  IgInv'
<1>1. "tell" \in IgPcs
  BY DEF IgPcs
<1>2. Others(c) /\ Moved(c, "tell")
  BY <1>1, IgMoves, IgCallOf
<1>3. IgTypes'
  BY <1>2, IgTypesStay, IgCallOf DEF IgInv, Others
<1>4. IgAt(igCall'[c]) /\ Reporting(igCall[c]) /\ igCall[c].op \in {"update", "report"}
  BY <1>2, IgCallOf DEF IgAt, Moved, Reporting, IgWork
<1>5. igUsed'.calls = 0 => igUsed.calls = 0 /\ igCall'[c].op = "idle"
  BY <1>4, IgCallOf
<1>6. /\ igCall'[c].rep \in Arrived \cup Resets /\ igCall'[c].rep # Ingress!NoState
      /\ igCall'[c].op = "update" =>
           LastOfSession(igCall'[c].rep) /\ igCall'[c].rep.status = "inactive"
  BY <1>2, <1>4, ArrivedHas DEF IgInv, IgHistory, Moved
<1>7. IF igCall'[c].was = Ingress!NoState THEN Excused5'
      ELSE igState # Ingress!NoState \/ "gone" \in igExcused'
  <2>1. Excused5 => Excused5'
    BY DEF Excused5
  <2> QED BY <1>2, <2>1 DEF IgInv, IgHasState, Moved
<1> QED BY <1>2, <1>3, <1>4, <1>5, <1>6, <1>7, IgMoveKeeps DEF Moved

LEMMA IgDropStateKeeps ==
  ASSUME IgInv, NEW c \in IgCallers, Ingress!DropState(c)
  PROVE  IgInv'
<1>1. /\ UNCHANGED <<igLimits, igInfo, igKey, igIndex>>
      /\ UNCHANGED <<igState, igSession, igSent, igTold>> /\ UNCHANGED <<igExcused, igPanicked, igUsed>>
      /\ igCall[c].pc = "sexec" /\ Ingress!Older(igCall[c])
      /\ IF igCall[c].op = "create" THEN Ingress!Ends(c) ELSE Ingress!Goes(c, "tell")
  BY DEF Ingress!DropState
<1>2. PICK o : o = Ingress!OldTimes(igCall[c])
  OBVIOUS
<1>3. /\ igCall[c].rep.start = o.start /\ igCall[c].rep.upd < o.upd
      /\ o \in Arrived /\ o \in Ingress!States /\ Past(o) /\ Past(igCall[c].rep)
      /\ igCall[c].rep \in Ingress!States /\ igSession \in Ingress!States
  BY <1>1, <1>2, IgOldTimes DEF Ingress!Older
<1>4. igCall[c].rep # igSession
  BY <1>3 DEF Past, Ingress!States
<1>5. igCall[c].op # "create"
  BY <1>3, IgCallOf, IgValues DEF Past, IgAt
<1>6. igCall[c].op # "update"
  <2>1. igCall[c].op = "update" => LastOfSession(igCall[c].rep)
    BY <1>1 DEF IgInv, IgHistory, Reporting
  <2> QED BY <1>3, <2>1 DEF LastOfSession, AllStates, Ingress!States
<1>7. igCall[c].op = "report"
  BY <1>1, <1>5, <1>6, IgCallOf DEF IgAt, IgWork
<1>8. "overtaken" \in igExcused
  BY <1>3, <1>7 DEF IgInv, IgOrder, NotLater, Ingress!States
<1>9. Ingress!Goes(c, "tell")
  BY <1>1, <1>5
<1> QED BY <1>1, <1>4, <1>5, <1>8, <1>9, IgToTellKeeps, IgCallOf

LEMMA IgRetryStateKeeps ==
  ASSUME IgInv, NEW c \in IgCallers, Ingress!RetryState(c)
  PROVE  IgInv'
<1>1. /\ UNCHANGED <<igLimits, igInfo, igKey, igIndex>>
      /\ UNCHANGED <<igState, igSession, igSent, igTold>> /\ UNCHANGED <<igPanicked, igUsed>>
      /\ igCall[c].pc = "sexec"
      /\ \/ /\ igCall' = [igCall EXCEPT ![c].pc = "stx", ![c].tries = igCall[c].tries + 1]
            /\ UNCHANGED igExcused
         \/ /\ igExcused' = igExcused \cup {"gaveUp"} /\ igCall[c].op = "create"
            /\ Ingress!Ends(c)
         \/ /\ igExcused' = igExcused \cup {"gaveUp"} /\ igCall[c].op # "create"
            /\ Ingress!Goes(c, "tell")
  BY DEF Ingress!RetryState, Ingress!Excuse
<1>2. /\ igExcused \subseteq igExcused' /\ igExcused' \subseteq IgExcuses
      /\ igUsed \in [calls : Nat, foreign : Nat, faults : Nat] /\ igPanicked \in BOOLEAN
      /\ igCall[c].op # "idle" /\ igCall[c].tries + 1 \in Int
  BY <1>1, IgCallOf DEF IgExcuses, IgAt, IgWork
<1>3. CASE igCall' = [igCall EXCEPT ![c].pc = "stx", ![c].tries = igCall[c].tries + 1]
           /\ UNCHANGED igExcused
  <2>1. "stx" \in IgPcs
    BY DEF IgPcs
  <2>2. Others(c) /\ Moved(c, "stx")
    BY <1>2, <1>3, <2>1, IgMovesTries, IgCallOf
  <2>3. IgTypes'
    BY <1>1, <1>2, <2>2, IgTypesStay, IgCallOf DEF IgInv, Others
  <2>4. IgAt(igCall'[c]) /\ Reporting(igCall[c])
    BY <1>1, <1>2, <2>2, IgCallOf DEF IgAt, Moved, Reporting
  <2>5. igUsed'.calls = 0 => igUsed.calls = 0 /\ igCall'[c].op = "idle"
    BY <1>1, <1>2, IgCallOf
  <2>6. /\ igCall'[c].rep \in Arrived \cup Resets /\ igCall'[c].rep # Ingress!NoState
        /\ igCall'[c].op = "update" =>
             LastOfSession(igCall'[c].rep) /\ igCall'[c].rep.status = "inactive"
    BY <2>2, <2>4, ArrivedHas DEF IgInv, IgHistory, Moved
  <2>7. igCall'[c].op # "create" =>
          IF igCall'[c].was = Ingress!NoState THEN Excused5'
          ELSE igState # Ingress!NoState \/ "gone" \in igExcused'
    <3>1. Excused5 => Excused5'
      BY <1>2 DEF Excused5
    <3> QED BY <1>1, <1>2, <2>2, <3>1 DEF IgInv, IgHasState, Moved
  <2> QED BY <1>1, <1>2, <2>2, <2>3, <2>4, <2>5, <2>6, <2>7, IgMoveKeeps DEF Moved
<1>4. CASE /\ igExcused' = igExcused \cup {"gaveUp"} /\ igCall[c].op = "create"
           /\ Ingress!Ends(c)
  <2>1. Others(c) /\ Ended(c)
    BY <1>4, IgEnds, IgCallOf
  <2>2. Excused5'
    BY <1>4 DEF Excused5
  <2> QED BY <1>1, <1>2, <1>4, <2>1, <2>2, IgLeaveKeeps
<1>5. CASE /\ igExcused' = igExcused \cup {"gaveUp"} /\ igCall[c].op # "create"
           /\ Ingress!Goes(c, "tell")
  <2>1. "gaveUp" \in igExcused'
    BY <1>5
  <2>2. /\ igExcused' \cap {"gone", "revived", "gaveUp", "failed"} # {}
        /\ igExcused' \cap {"overtaken", "creating", "gone", "revived", "gaveUp", "failed"} # {}
    BY <2>1
  <2> QED BY <1>1, <1>2, <1>5, <2>2, IgToTellKeeps
<1> QED BY <1>1, <1>3, <1>4, <1>5

LEMMA IgRedisFailsKeeps ==
  ASSUME IgInv, NEW c \in IgCallers, Ingress!RedisFails(c)
  PROVE  IgInv'
<1>1. /\ UNCHANGED <<igLimits, igInfo, igKey, igIndex>>
      /\ UNCHANGED <<igState, igSession, igSent, igTold>> /\ UNCHANGED igPanicked
      /\ igCall[c].op # "idle" /\ igCall[c].pc # "tell"
      /\ igUsed' = [igUsed EXCEPT !.faults = @ + 1]
      /\ IF igCall[c].pc \in {"rload", "rloadState", "stx", "sexec"}
         THEN Ingress!StateFails(c) ELSE Ingress!Ends(c)
      /\ igExcused' = igExcused \cup {"failed"}
  BY DEF Ingress!RedisFails, Ingress!Fails, Ingress!Excuse
<1>2. igUsed' \in [calls : Nat, foreign : Nat, faults : Nat] /\ igUsed'.calls = igUsed.calls
  BY <1>1, IgCallOf
<1>3. /\ igExcused \subseteq igExcused' /\ igExcused' \subseteq IgExcuses /\ "failed" \in igExcused'
  BY <1>1, IgCallOf DEF IgExcuses
<1>4. Excused5'
  BY <1>3 DEF Excused5
<1>5. /\ Others(c)
      /\ \/ Ended(c)
         \/ igCall[c].op = "update" /\ Moved(c, "tx") /\ igCall[c].pc # "load"
  BY <1>1, IgStateFails, IgEnds, IgCallOf
<1> QED BY <1>1, <1>2, <1>3, <1>4, <1>5, IgLeaveKeeps, IgCallOf

LEMMA IgOtherKeeps ==
  ASSUME IgInv, Ingress!OtherIngress
  PROVE  IgInv'
<1>1. PICK c \in IgCallers : igCall[c].pc = "exec" /\ ~igCall[c].dirty
  BY DEF Ingress!OtherIngress
<1>2. /\ UNCHANGED <<igLimits, igInfo, igKey, igIndex>>
      /\ UNCHANGED <<igState, igSession, igSent, igTold>> /\ UNCHANGED <<igExcused, igPanicked>>
      /\ igUsed' = [igUsed EXCEPT !.foreign = @ + 1]
      /\ igCall' = Ingress!Touched(igCall, "info")
  BY DEF Ingress!OtherIngress
<1>3. igUsed' \in [calls : Nat, foreign : Nat, faults : Nat] /\ igUsed'.calls = igUsed.calls
  BY <1>2, IgCallOf
<1>4. /\ igCall' \in [IgCallers -> IgWork] /\ \A d \in IgCallers : Kept(d)
      /\ igCall'[c].dirty
  <2>1. igCall \in [IgCallers -> IgWork]
    BY IgCallOf
  <2>2. \A d \in IgCallers :
          /\ Same(igCall[d], igCall'[d])
          /\ igCall[d].pc = "exec" => igCall'[d].dirty
    BY <1>2, <2>1, IgTouched
  <2>3. igCall' \in [IgCallers -> IgWork]
    BY <1>2, <2>1, IgTouches
  <2>4. ASSUME NEW d \in IgCallers PROVE Kept(d)
    BY <2>2 DEF Kept, Same
  <2>5. igCall'[c].dirty
    BY <1>1, <2>2
  <2> QED BY <2>3, <2>4, <2>5
<1>5. Others(c) /\ Kept(c)
  BY <1>4 DEF Others
<1>6. IgTypes'
  BY <1>2, <1>3, <1>4, IgTypesStay, IgCallOf DEF IgInv
<1>7. /\ IgAt(igCall'[c]) /\ ~Reporting(igCall'[c]) /\ igCall'[c].pc = "exec"
      /\ igCall'[c].op = igCall[c].op /\ igCall[c].op # "idle" /\ igCall[c].op # "report"
  BY <1>1, <1>5, IgCallOf DEF IgAt, Kept, Reporting
<1>8. igUsed'.calls = 0 => igUsed.calls = 0 /\ igCall'[c].op = "idle"
  BY <1>3, <1>7, IgCallOf
<1> QED BY <1>1, <1>2, <1>4, <1>5, <1>6, <1>7, <1>8, IgMoveKeeps

(* All states are records of times and a status.                            *)
LEMMA StatesTyped ==
  ASSUME IgInv
  PROVE  /\ AllStates \subseteq Ingress!States /\ Arrived \subseteq AllStates
         /\ igSession \in Ingress!States /\ igSession.start >= 0 /\ Past(igSession)
         /\ \A s \in Arrived : NotLater(s, igSession)
<1>1. AllStates \subseteq Ingress!States
  <2>1. Ingress!Fresh \in Ingress!States /\ Ingress!NoState \in Ingress!States
    BY IgValues
  <2>2. igState \in Ingress!States /\ igSession \in Ingress!States /\ igSent \subseteq Ingress!States
    BY DEF IgInv, IgTypes, Ingress!IgTypeOK
  <2>3. \A c \in IgCallers : /\ igCall[c].rep \in Ingress!States
                             /\ igCall[c].seen \in Ingress!States
                             /\ igCall[c].oldState \in Ingress!States
    BY DEF IgInv, IgTypes, IgWork
  <2> QED BY <2>1, <2>2, <2>3 DEF AllStates, Arrived
<1>2. igSession \in AllStates /\ Arrived \subseteq AllStates
  BY DEF AllStates
<1>3. Past(igSession)
  BY <1>2 DEF IgInv, IgHistory
<1>4. ASSUME NEW s \in Arrived PROVE NotLater(s, igSession)
  <2>1. s \in Ingress!States /\ igSession \in Ingress!States /\ (s = Ingress!NoState \/ Past(s))
    BY <1>1, <1>2, <1>4 DEF IgInv, IgHistory
  <2> QED BY <1>3, <2>1, IgValues DEF Past, NotLater, Ingress!States
<1> QED BY <1>1, <1>2, <1>3, <1>4 DEF Past

LEMMA IgCreateKeeps ==
  ASSUME IgInv, NEW c \in IgCallers, Ingress!CreateIngress(c)
  PROVE  IgInv'
<1>1. PICK k \in IgWork : /\ k.op = "create" /\ k.pc = "tx" /\ k.rep = Ingress!Fresh
                          /\ Ingress!Begin(c, "create", k)
  <2>1. PICK room \in IgSomeRooms :
          Ingress!Begin(c, "create", [Ingress!NoCall EXCEPT !.op = "create", !.pc = "tx",
                                        !.room = room, !.rep = Ingress!Fresh])
    BY Zenon DEF Ingress!CreateIngress, IgSomeRooms
  <2>2. PICK k : k = [Ingress!NoCall EXCEPT !.op = "create", !.pc = "tx",
                        !.room = room, !.rep = Ingress!Fresh]
    OBVIOUS
  <2>3. k \in IgWork /\ k.op = "create" /\ k.pc = "tx" /\ k.rep = Ingress!Fresh
    BY <2>2, IgValues DEF IgWork, IgPcs
  <2> QED BY <2>1, <2>2, <2>3
<1>2. /\ UNCHANGED <<igLimits, igInfo, igKey, igIndex>>
      /\ UNCHANGED <<igState, igSession, igSent, igTold>> /\ UNCHANGED <<igExcused, igPanicked>>
      /\ igUsed.calls = 0
  BY DEF Ingress!CreateIngress
<1>3. /\ Others(c) /\ igCall'[c] = k /\ igCall[c].op = "idle" /\ igCall[c].pc = "none"
      /\ igUsed' \in [calls : Nat, foreign : Nat, faults : Nat] /\ igUsed'.calls # 0
  BY <1>1, IgBegins
<1>4. Nothing /\ \A d \in IgCallers : igCall[d].op = "idle" /\ igCall[d].pc = "none"
  BY <1>2, IgCallOf DEF IgInv, IgFirst
<1>5. \A d \in IgCallers : d # c => igCall'[d].op = "idle" /\ igCall'[d].pc = "none"
  BY <1>3, <1>4 DEF Others, Kept
<1>6. IgTypes'
  BY <1>2, <1>3, IgTypesStay, IgCallOf DEF IgInv, Others
<1>7. IgShape'
  BY <1>1, <1>3, <1>5 DEF IgShape, IgAt
<1>8. Nothing'
  BY <1>2, <1>4 DEF Nothing
<1>9. IgFirst'
  BY <1>1, <1>3, <1>5, <1>8 DEF IgFirst
<1>10. IgWatches'
  BY <1>1, <1>3, <1>5 DEF IgWatches
<1>11. IgListing'
  BY <1>2 DEF IgInv, IgListing, Ingress!StoredIsFound
<1>12. \A d \in IgCallers : ~Reporting(igCall'[d]) /\ igCall'[d].pc \notin {"decide", "sexec", "tell"}
  BY <1>1, <1>3, <1>5 DEF Reporting
<1>13. Arrived' \subseteq Arrived
  <2>1. igState' \in Arrived
    BY <1>2, ArrivedHas
  <2> QED BY <1>12, <2>1, ArrivedHas, ArrivedOnly
<1>14. IgHistory'
  <2>1. AllStates' \subseteq AllStates \cup Resets
    BY <1>2, <1>13 DEF AllStates
  <2> QED BY <1>2, <1>12, <2>1, HistoryStays DEF IgInv
<1>15. IgHasState'
  BY <1>2, <1>4, <1>1, <1>3, <1>5 DEF IgInv, IgHasState, Ingress!InfoHasState, Excused5, Nothing
<1>16. IgLast'
  BY <1>2, <1>4 DEF IgLast, Nothing
<1>17. IgOrder'
  BY <1>1, <1>3, <1>5 DEF IgOrder
<1>18. IgTells'
  BY <1>2, <1>4, <1>12 DEF IgTells, Nothing
<1> QED BY <1>6, <1>7, <1>9, <1>10, <1>11, <1>14, <1>15, <1>16, <1>17, <1>18 DEF IgInv

LEMMA IgReportArrivesKeeps ==
  ASSUME IgInv, NEW c \in IgCallers, Ingress!ReportArrives(c)
  PROVE  IgInv'
<1>0. PICK r \in igSent :
        /\ igSent' = igSent \ {r}
        /\ igCall' = [igCall EXCEPT ![c] =
             [Ingress!NoCall EXCEPT !.op = "report", !.pc = "rload", !.rep = r]]
        /\ igExcused' = IF r # igSession \/ \E d \in IgCallers : igCall[d].op = "report"
                        THEN igExcused \cup {"overtaken"} ELSE igExcused
  BY Zenon DEF Ingress!ReportArrives
<1>1. PICK k :
        /\ k = [Ingress!NoCall EXCEPT !.op = "report", !.pc = "rload", !.rep = r]
        /\ igSent' = igSent \ {r}
        /\ igCall' = [igCall EXCEPT ![c] = k]
        /\ igExcused' = IF r # igSession \/ \E d \in IgCallers : igCall[d].op = "report"
                        THEN igExcused \cup {"overtaken"} ELSE igExcused
  BY <1>0, Zenon
<1>2. /\ UNCHANGED <<igLimits, igInfo, igKey, igIndex>>
      /\ UNCHANGED <<igState, igSession, igTold>> /\ UNCHANGED <<igPanicked, igUsed>>
      /\ igCall[c].op = "idle" /\ igCall[c].pc = "none"
  BY IgCallOf DEF Ingress!ReportArrives
<1>3. r \in Ingress!States
  BY DEF IgInv, IgTypes, Ingress!IgTypeOK
<1>4. k \in IgWork /\ k.op = "report" /\ k.pc = "rload" /\ k.rep = r
  BY <1>1, <1>3, IgValues DEF IgWork, IgPcs
<1>5. /\ igCall' \in [IgCallers -> IgWork] /\ igCall'[c] = k
      /\ \A d \in IgCallers : d # c => igCall'[d] = igCall[d]
  BY <1>1, <1>4, IgCallOf
<1>6. igExcused \subseteq igExcused' /\ igExcused' \subseteq IgExcuses
  BY <1>1, IgCallOf DEF IgExcuses
<1>7. IgTypes'
  BY <1>1, <1>2, <1>5, <1>6, IgCallOf DEF IgInv, IgTypes, Ingress!IgTypeOK, IgExcuses
<1>8. IgShape'
  BY <1>4, <1>5 DEF IgInv, IgShape, IgAt
<1>9. ~Nothing
  BY <1>1 DEF Nothing
<1>10. IgFirst'
  BY <1>2, <1>4, <1>5, <1>9 DEF IgInv, IgFirst
<1>11. IgWatches'
  BY <1>2, <1>4, <1>5 DEF IgInv, IgWatches
<1>12. IgListing'
  BY <1>1, <1>2 DEF IgInv, IgListing, Ingress!StoredIsFound
<1>13. Arrived' \subseteq Arrived \cup {r}
  <2>1. \A d \in IgCallers :
          /\ Reporting(igCall'[d]) => igCall'[d].rep \in Arrived \cup {r}
          /\ igCall'[d].pc = "decide" => igCall'[d].seen \in Arrived \cup {r}
          /\ igCall'[d].pc = "sexec" => igCall'[d].oldState \in Arrived \cup {r}
    BY <1>4, <1>5, ArrivedHas
  <2>2. igState' \in Arrived
    BY <1>2, ArrivedHas
  <2> QED BY <2>1, <2>2, ArrivedHas, ArrivedOnly
<1>14. IgHistory'
  <2>1. AllStates' \subseteq AllStates \cup Resets
    BY <1>1, <1>2, <1>13 DEF AllStates
  <2>2. r # Ingress!NoState
    BY DEF IgInv, IgHistory
  <2>3. ASSUME NEW d \in IgCallers, Reporting(igCall'[d])
        PROVE  /\ igCall'[d].rep # Ingress!NoState
               /\ igCall'[d].op = "update" =>
                    LastOfSession(igCall'[d].rep) /\ igCall'[d].rep.status = "inactive"
    BY <1>4, <1>5, <2>2, <2>3 DEF IgInv, IgHistory
  <2>4. igSent' \subseteq igSent
    BY <1>1
  <2> QED BY <1>2, <2>1, <2>3, <2>4, HistoryStays DEF IgInv
<1>15. IgHasState'
  <2>1. Excused5 => Excused5'
    BY <1>6 DEF Excused5
  <2>2. igInfo' # Ingress!NoInfo /\ igState' = Ingress!NoState => Ingress!Creating' \/ Excused5'
    BY <1>2, <1>5, <2>1 DEF IgInv, IgHasState, Ingress!Creating
  <2>3. Ingress!InfoHasState'
    BY <1>2, <2>1 DEF IgInv, IgHasState, Ingress!InfoHasState, Excused5
  <2> QED BY <1>2, <1>4, <1>5, <1>6, <2>1, <2>2, <2>3 DEF IgInv, IgHasState
<1>16. IgLast'
  BY <1>1, <1>2, <1>4, <1>5 DEF IgInv, IgLast
<1>17. IgOrder'
  <2>1. ASSUME "overtaken" \notin igExcused', NEW e \in IgCallers, igCall'[e].op = "report"
        PROVE  /\ \A d \in IgCallers : igCall'[d].op = "report" => e = d
               /\ \A t \in Arrived' : NotLater(t, igCall'[e].rep)
    <3>1. r = igSession /\ \A d \in IgCallers : igCall[d].op # "report"
      BY <1>1, <2>1
    <3>2. e = c /\ igCall'[e].rep = igSession /\ \A d \in IgCallers : igCall'[d].op = "report" => e = d
      BY <1>4, <1>5, <2>1, <3>1
    <3>3. NotLater(igSession, igSession) /\ \A t \in Arrived : NotLater(t, igSession)
      BY StatesTyped DEF NotLater, Ingress!States
    <3> QED BY <1>13, <3>1, <3>2, <3>3
  <2> QED BY <2>1 DEF IgOrder, NotLater
<1>18. IgTells'
  BY <1>1, <1>2, <1>4, <1>5 DEF IgInv, IgTells
<1> QED BY <1>7, <1>8, <1>10, <1>11, <1>12, <1>14, <1>15, <1>16, <1>17, <1>18 DEF IgInv

LEMMA IgRemoveKeeps ==
  ASSUME IgInv, NEW c \in IgCallers, Ingress!Remove(c)
  PROVE  IgInv'
<1>1. /\ igCall[c].pc = "remove" /\ igInfo' = Ingress!NoInfo /\ igKey' = FALSE
      /\ igState' = Ingress!NoState /\ igIndex' = igIndex \ {igCall[c].room}
      /\ igExcused' = igExcused
           \cup (IF igIndex' # {} THEN {"moved"} ELSE {})
           \cup (IF \E d \in IgCallers \ {c} : igCall[d].op # "idle" THEN {"gone"} ELSE {})
  BY DEF Ingress!Remove
<1>2. UNCHANGED <<igLimits, igSession, igSent, igTold>> /\ UNCHANGED <<igPanicked, igUsed>>
  BY DEF Ingress!Remove
<1>3. PICK t : t = IF igInfo # Ingress!NoInfo THEN Ingress!Touched(igCall, "info") ELSE igCall
  OBVIOUS
<1>4. PICK u : u = IF igState # Ingress!NoState THEN Ingress!Touched(t, "state") ELSE t
  OBVIOUS
<1>5. igCall' = [u EXCEPT ![c] = Ingress!NoCall]
  BY <1>3, <1>4 DEF Ingress!Remove
<1>6. /\ t \in [IgCallers -> IgWork]
      /\ \A d \in IgCallers :
           /\ Same(igCall[d], t[d])
           /\ igInfo # Ingress!NoInfo /\ igCall[d].pc = "exec" => t[d].dirty
  <2>1. CASE igInfo = Ingress!NoInfo
    BY <1>3, <2>1, IgCallOf DEF Same
  <2>2. CASE igInfo # Ingress!NoInfo
    <3>1. t = Ingress!Touched(igCall, "info") /\ igCall \in [IgCallers -> IgWork]
      BY <1>3, <2>2, IgCallOf
    <3> QED BY <3>1, IgTouched
  <2> QED BY <2>1, <2>2
<1>7. /\ u \in [IgCallers -> IgWork]
      /\ \A d \in IgCallers :
           /\ Same(t[d], u[d])
           /\ igState # Ingress!NoState /\ t[d].pc = "sexec" => u[d].dirty
  <2>1. CASE igState = Ingress!NoState
    BY <1>4, <1>6, <2>1 DEF Same
  <2>2. CASE igState # Ingress!NoState
    <3>1. u = Ingress!Touched(t, "state")
      BY <1>4, <2>2
    <3> QED BY <1>6, <3>1, IgTouched
  <2> QED BY <2>1, <2>2
<1>8. /\ igCall' \in [IgCallers -> IgWork] /\ igCall'[c] = Ingress!NoCall
      /\ \A d \in IgCallers : d # c => igCall'[d] = u[d]
  BY <1>5, <1>7, IgValues
<1>9. ASSUME NEW d \in IgCallers, d # c
      PROVE  /\ Kept(d)
             /\ igInfo # Ingress!NoInfo /\ igCall[d].pc = "exec" => igCall'[d].dirty
             /\ igState # Ingress!NoState /\ igCall[d].pc = "sexec" => igCall'[d].dirty
  <2>1. Same(igCall[d], t[d]) /\ Same(t[d], u[d]) /\ igCall'[d] = u[d]
    BY <1>6, <1>7, <1>8, <1>9
  <2>2. Kept(d) /\ t[d].pc = igCall[d].pc
    BY <2>1 DEF Same, Kept
  <2>3. igInfo # Ingress!NoInfo /\ igCall[d].pc = "exec" => igCall'[d].dirty
    BY <1>6, <2>1 DEF Same
  <2>4. igState # Ingress!NoState /\ igCall[d].pc = "sexec" => igCall'[d].dirty
    BY <1>7, <2>1, <2>2 DEF Same
  <2> QED BY <2>2, <2>3, <2>4
<1>10. igCall'[c].op = "idle" /\ igCall'[c].pc = "none" /\ igCall[c].op = "delete"
  BY <1>1, <1>8, IgValues, IgCallOf DEF IgAt, IgWork
<1>11. /\ igExcused \subseteq igExcused' /\ igExcused' \subseteq IgExcuses
       /\ \A d \in IgCallers : d # c /\ igCall[d].op # "idle" => "gone" \in igExcused'
       /\ igIndex' # {} => "moved" \in igExcused'
  BY <1>1, IgCallOf DEF IgExcuses
<1>12. IgTypes'
  BY <1>1, <1>2, <1>8, <1>11, IgValues, IgCallOf DEF IgInv, IgTypes, Ingress!IgTypeOK, IgExcuses
<1>13. IgShape'
  BY <1>9, <1>10 DEF IgInv, IgShape, IgAt, Kept
<1>14. IgFirst'
  <2>1. igUsed'.calls # 0
    BY <1>2, <1>10, IgCallOf
  <2>2. ASSUME NEW e \in IgCallers, igCall'[e].op = "create", igCall'[e].pc \in {"tx", "exec"}
        PROVE  FALSE
    BY <1>1, <1>9, <1>10, <2>2 DEF IgInv, IgFirst, Kept
  <2> QED BY <2>1, <2>2 DEF IgFirst
<1>15. IgWatches'
  <2>1. ASSUME NEW d \in IgCallers
        PROVE  /\ igCall'[d].pc = "exec" /\ ~igCall'[d].dirty => igCall'[d].old = igInfo'
               /\ igCall'[d].pc = "sexec" /\ ~igCall'[d].dirty => igCall'[d].oldState = igState'
    BY <1>1, <1>9, <1>10, <2>1 DEF IgInv, IgWatches, Kept
  <2> QED BY <2>1 DEF IgWatches
<1>16. IgListing'
  BY <1>1, <1>11 DEF IgListing, Ingress!StoredIsFound
<1>17. Arrived' \subseteq Arrived
  <2>1. \A d \in IgCallers :
          /\ Reporting(igCall'[d]) => igCall'[d].rep \in Arrived
          /\ igCall'[d].pc = "decide" => igCall'[d].seen \in Arrived
          /\ igCall'[d].pc = "sexec" => igCall'[d].oldState \in Arrived
    BY <1>9, <1>10, ArrivedHas DEF Kept, Reporting
  <2>2. igState' \in Arrived
    BY <1>1, ArrivedHas
  <2> QED BY <2>1, <2>2, ArrivedHas, ArrivedOnly
<1>18. IgHistory'
  <2>1. AllStates' \subseteq AllStates \cup Resets
    BY <1>2, <1>17 DEF AllStates
  <2>2. ASSUME NEW d \in IgCallers, Reporting(igCall'[d])
        PROVE  /\ igCall'[d].rep # Ingress!NoState
               /\ igCall'[d].op = "update" =>
                    LastOfSession(igCall'[d].rep) /\ igCall'[d].rep.status = "inactive"
    <3>1. Reporting(igCall[d]) /\ igCall'[d].rep = igCall[d].rep /\ igCall'[d].op = igCall[d].op
      BY <1>9, <1>10, <2>2 DEF Kept, Reporting
    <3> QED BY <3>1 DEF IgInv, IgHistory
  <2> QED BY <1>2, <2>1, <2>2, HistoryStays DEF IgInv
<1>19. IgHasState'
  <2>1. /\ Excused5 => Excused5'
        /\ "gone" \in igExcused' => Excused5'
    BY <1>11 DEF Excused5
  <2>2. Ingress!InfoHasState'
    BY <1>2, <2>1 DEF IgInv, IgHasState, Ingress!InfoHasState, Excused5
  <2>3. ASSUME NEW d \in IgCallers
        PROVE  /\ igCall'[d].pc = "decide" /\ igCall'[d].seen = Ingress!NoState => Excused5'
               /\ igCall'[d].pc \in {"stx", "sexec", "tell"} /\ igCall'[d].op # "create" =>
                    IF igCall'[d].was = Ingress!NoState THEN Excused5'
                    ELSE igState' # Ingress!NoState \/ "gone" \in igExcused'
               /\ igCall'[d].pc = "sexec" /\ igCall'[d].op = "create"
                    /\ igCall'[d].oldState # Ingress!NoState =>
                    igState' # Ingress!NoState \/ Excused5'
    <3>1. CASE d = c
      BY <1>10, <3>1
    <3>2. CASE d # c /\ igCall[d].op # "idle"
      BY <1>11, <2>1, <3>2
    <3>3. CASE d # c /\ igCall[d].op = "idle"
      <4>1. igCall'[d].pc = "none"
        BY <1>9, <3>3, IgCallOf DEF Kept
      <4> QED BY <4>1
    <3> QED BY <3>1, <3>2, <3>3
  <2> QED BY <1>1, <2>2, <2>3 DEF IgHasState
<1>20. IgLast'
  BY <1>1 DEF IgLast
<1>21. IgOrder'
  <2>1. ASSUME "overtaken" \notin igExcused', NEW e \in IgCallers, igCall'[e].op = "report"
        PROVE  /\ \A d \in IgCallers : igCall'[d].op = "report" => e = d
               /\ \A t2 \in Arrived' : NotLater(t2, igCall'[e].rep)
    <3>1. /\ "overtaken" \notin igExcused /\ igCall[e].op = "report" /\ igCall'[e].rep = igCall[e].rep
          /\ \A d \in IgCallers : igCall'[d].op = "report" => igCall[d].op = "report"
      BY <1>9, <1>10, <1>11, <2>1 DEF Kept
    <3> QED BY <1>17, <3>1 DEF IgInv, IgOrder
  <2> QED BY <2>1 DEF IgOrder, NotLater
<1>22. IgTells'
  <2>1. ASSUME "gone" \notin igExcused', NEW d \in IgCallers
        PROVE  igCall'[d].pc = "none"
    BY <1>9, <1>10, <1>11, <2>1, IgCallOf DEF Kept
  <2> QED BY <1>1, <2>1 DEF IgTells
<1> QED BY <1>12, <1>13, <1>14, <1>15, <1>16, <1>18, <1>19, <1>20, <1>21, <1>22 DEF IgInv

LEMMA IgWriteInfoKeeps ==
  ASSUME IgInv, NEW c \in IgCallers, Ingress!WriteInfo(c)
  PROVE  IgInv'
<1>1. /\ igCall[c].pc = "exec" /\ ~igCall[c].dirty /\ igInfo' = igCall[c].room
      /\ igKey' = (igLimits.kind = "push")
      /\ igIndex' = Ingress!Reindexed(igCall[c])
      /\ igExcused' = igExcused
           \cup (IF igCall[c].op = "update" /\ igInfo = Ingress!NoInfo THEN {"revived"} ELSE {})
  BY DEF Ingress!WriteInfo, Ingress!LostWatch
<1>2. UNCHANGED <<igLimits, igState, igSession, igSent, igTold>> /\ UNCHANGED <<igPanicked, igUsed>>
  BY DEF Ingress!WriteInfo
<1>3. PICK t : t = Ingress!Touched(igCall, "info")
  OBVIOUS
<1>4. PICK k : k = IF igCall[c].op = "create"
                   THEN [igCall[c] EXCEPT !.pc = "stx", !.tries = 0] ELSE Ingress!NoCall
  OBVIOUS
<1>5. igCall' = [t EXCEPT ![c] = k]
  BY <1>3, <1>4 DEF Ingress!WriteInfo
<1>6. /\ t \in [IgCallers -> IgWork]
      /\ \A d \in IgCallers :
           /\ Same(igCall[d], t[d])
           /\ igCall[d].pc = "exec" => t[d].dirty
  BY <1>3, IgTouched, IgCallOf
<1>7. /\ k \in IgWork
      /\ igCall[c].op \in {"create", "update"}
      /\ igCall[c].op = "create" => k.op = "create" /\ k.pc = "stx" /\ k.rep = Ingress!Fresh
      /\ igCall[c].op = "update" => k.op = "idle" /\ k.pc = "none"
  <2>1. igCall[c].op \in {"create", "update"}
    BY <1>1, IgCallOf DEF IgAt, IgWork
  <2>2. CASE igCall[c].op = "create"
    <3>1. k = [igCall[c] EXCEPT !.pc = "stx", !.tries = 0] /\ igCall[c].rep = Ingress!Fresh
      BY <1>4, <2>2, IgCallOf DEF IgAt
    <3>2. "stx" \in IgPcs /\ 0 \in Int
      BY DEF IgPcs
    <3> QED BY <2>2, <3>1, <3>2, IgCallOf, Zenon DEF IgWork
  <2>3. CASE igCall[c].op = "update"
    BY <1>4, <2>3, IgValues
  <2> QED BY <2>1, <2>2, <2>3
<1>8. /\ igCall' \in [IgCallers -> IgWork] /\ igCall'[c] = k
      /\ \A d \in IgCallers : d # c => igCall'[d] = t[d]
  BY <1>5, <1>6, <1>7
<1>9. ASSUME NEW d \in IgCallers, d # c
      PROVE  /\ Kept(d)
             /\ igCall[d].pc = "exec" => igCall'[d].dirty
  <2>1. Same(igCall[d], t[d]) /\ igCall'[d] = t[d]
    BY <1>6, <1>8, <1>9
  <2>2. Kept(d)
    BY <2>1 DEF Same, Kept
  <2> QED BY <1>6, <2>1, <2>2
<1>10. /\ igExcused \subseteq igExcused' /\ igExcused' \subseteq IgExcuses
       /\ igCall[c].op = "update" /\ igInfo = Ingress!NoInfo => "revived" \in igExcused'
       /\ "moved" \in igExcused' => "moved" \in igExcused
  BY <1>1, IgCallOf DEF IgExcuses
<1>11. /\ igCall[c].room \in IgSomeRooms /\ igCall[c].old = igInfo /\ igInfo' # Ingress!NoInfo
  BY <1>1, IgCallOf, IgValues DEF IgWork, IgInv, IgWatches
<1>12. igIndex' = IF igInfo = igCall[c].room THEN igIndex
                  ELSE (igIndex \ {igInfo}) \cup ({igCall[c].room} \ {Ingress!NoRoom})
  BY <1>1, <1>11 DEF Ingress!Reindexed
<1>13. igCall[c].op = "create" => Nothing
  BY <1>1 DEF IgInv, IgFirst
<1>14. IgTypes'
  <2>1. igIndex' \subseteq IgRooms /\ igInfo' \in IgRooms \cup {Ingress!NoRoom, Ingress!NoInfo}
    BY <1>1, <1>11, <1>12 DEF IgInv, IgTypes, Ingress!IgTypeOK, IgSomeRooms
  <2>2. igKey' \in BOOLEAN
    BY <1>1
  <2> QED BY <1>2, <1>8, <1>10, <2>1, <2>2, IgCallOf DEF IgInv, IgTypes, Ingress!IgTypeOK, IgExcuses
<1>15. IgShape'
  BY <1>7, <1>8, <1>9 DEF IgInv, IgShape, IgAt, Kept
<1>16. IgFirst'
  <2>1. igUsed'.calls # 0
    BY <1>2, <1>7, IgCallOf
  <2>2. ASSUME NEW e \in IgCallers, igCall'[e].op = "create", igCall'[e].pc \in {"tx", "exec"}
        PROVE  FALSE
    BY <1>1, <1>7, <1>8, <1>9, <2>2 DEF IgInv, IgFirst, Kept
  <2> QED BY <2>1, <2>2 DEF IgFirst
<1>17. IgWatches'
  <2>1. ASSUME NEW d \in IgCallers
        PROVE  /\ igCall'[d].pc = "exec" /\ ~igCall'[d].dirty => igCall'[d].old = igInfo'
               /\ igCall'[d].pc = "sexec" /\ ~igCall'[d].dirty => igCall'[d].oldState = igState'
    BY <1>2, <1>7, <1>8, <1>9, <2>1 DEF IgInv, IgWatches, Kept
  <2> QED BY <2>1 DEF IgWatches
<1>18. IgListing'
  <2>1. Ingress!StoredIsFound'
    <3>1. igLimits'.kind = "push" => igKey'
      BY <1>1, <1>2
    <3>2. igInfo' \in IgRooms => igInfo' \in igIndex'
      BY <1>1, <1>11, <1>12, RecordNames, Zenon DEF IgInv, IgListing, Ingress!StoredIsFound, Ingress!NoRoom, Ingress!NoInfo
    <3> QED BY <3>1, <3>2 DEF Ingress!StoredIsFound
  <2>2. "moved" \notin igExcused' => igIndex' \subseteq {igInfo'}
    BY <1>1, <1>10, <1>12 DEF IgInv, IgListing
  <2>3. "revived" \notin igExcused' => igIndex' \subseteq {igInfo'}
    <3>1. igIndex \subseteq {igInfo} => igIndex' \subseteq {igInfo'}
      BY <1>1, <1>12
    <3>2. CASE igInfo = Ingress!NoInfo
      BY <1>7, <1>10, <1>13, <3>1, <3>2 DEF Nothing
    <3>3. CASE igInfo # Ingress!NoInfo
      BY <1>10, <3>1, <3>3 DEF IgInv, IgListing
    <3> QED BY <3>2, <3>3
  <2> QED BY <2>1, <2>2, <2>3 DEF IgListing
<1>19. Arrived' \subseteq Arrived
  <2>1. \A d \in IgCallers :
          /\ Reporting(igCall'[d]) => igCall'[d].rep \in Arrived
          /\ igCall'[d].pc = "decide" => igCall'[d].seen \in Arrived
          /\ igCall'[d].pc = "sexec" => igCall'[d].oldState \in Arrived
    BY <1>7, <1>8, <1>9, ArrivedHas DEF Kept, Reporting
  <2>2. igState' \in Arrived
    BY <1>2, ArrivedHas
  <2> QED BY <2>1, <2>2, ArrivedHas, ArrivedOnly
<1>20. IgHistory'
  <2>1. AllStates' \subseteq AllStates \cup Resets
    BY <1>2, <1>19 DEF AllStates
  <2>2. ASSUME NEW d \in IgCallers, Reporting(igCall'[d])
        PROVE  /\ igCall'[d].rep # Ingress!NoState
               /\ igCall'[d].op = "update" =>
                    LastOfSession(igCall'[d].rep) /\ igCall'[d].rep.status = "inactive"
    <3>1. CASE d = c
      BY <1>7, <1>8, <2>2, <3>1, IgValues DEF Reporting
    <3>2. CASE d # c
      <4>1. Reporting(igCall[d]) /\ igCall'[d].rep = igCall[d].rep /\ igCall'[d].op = igCall[d].op
        BY <1>9, <2>2, <3>2 DEF Kept, Reporting
      <4> QED BY <4>1 DEF IgInv, IgHistory
    <3> QED BY <3>1, <3>2
  <2> QED BY <1>2, <2>1, <2>2, HistoryStays DEF IgInv
<1>21. IgHasState'
  <2>1. /\ Excused5 => Excused5'
        /\ "revived" \in igExcused' => Excused5'
    BY <1>10 DEF Excused5
  <2>2. Ingress!InfoHasState'
    BY <1>2, <2>1 DEF IgInv, IgHasState, Ingress!InfoHasState, Excused5
  <2>3. igState' = Ingress!NoState => Ingress!Creating' \/ Excused5'
    <3>1. CASE igCall[c].op = "create"
      BY <1>7, <1>8, <3>1 DEF Ingress!Creating
    <3>2. CASE igCall[c].op # "create" /\ igInfo = Ingress!NoInfo
      BY <1>7, <1>10, <2>1, <3>2
    <3>3. CASE igCall[c].op # "create" /\ igInfo # Ingress!NoInfo
      <4>1. Ingress!Creating => Ingress!Creating'
        BY <1>9, <3>3 DEF Ingress!Creating, Kept
      <4> QED BY <1>2, <2>1, <3>3, <4>1 DEF IgInv, IgHasState
    <3> QED BY <3>1, <3>2, <3>3
  <2>4. ASSUME NEW d \in IgCallers
        PROVE  /\ igCall'[d].pc = "decide" /\ igCall'[d].seen = Ingress!NoState => Excused5'
               /\ igCall'[d].pc \in {"stx", "sexec", "tell"} /\ igCall'[d].op # "create" =>
                    IF igCall'[d].was = Ingress!NoState THEN Excused5'
                    ELSE igState' # Ingress!NoState \/ "gone" \in igExcused'
               /\ igCall'[d].pc = "sexec" /\ igCall'[d].op = "create"
                    /\ igCall'[d].oldState # Ingress!NoState =>
                    igState' # Ingress!NoState \/ Excused5'
    <3>1. CASE d = c
      BY <1>7, <1>8, <3>1
    <3>2. CASE d # c
      BY <1>2, <1>9, <1>10, <2>1, <3>2 DEF IgInv, IgHasState, Kept
    <3> QED BY <3>1, <3>2
  <2> QED BY <2>2, <2>3, <2>4 DEF IgHasState
<1>22. IgLast'
  <2>1. CASE igInfo = Ingress!NoInfo
    BY <1>2, <1>7, <1>10, <1>13, <2>1, IgValues DEF IgLast, Nothing
  <2>2. CASE igInfo # Ingress!NoInfo
    BY <1>2, <1>7, <1>9, <1>10, <2>2 DEF IgInv, IgLast, Kept
  <2> QED BY <2>1, <2>2
<1>23. IgOrder'
  <2>1. ASSUME "overtaken" \notin igExcused', NEW e \in IgCallers, igCall'[e].op = "report"
        PROVE  /\ \A d \in IgCallers : igCall'[d].op = "report" => e = d
               /\ \A t2 \in Arrived' : NotLater(t2, igCall'[e].rep)
    <3>1. /\ "overtaken" \notin igExcused /\ igCall[e].op = "report" /\ igCall'[e].rep = igCall[e].rep
          /\ \A d \in IgCallers : igCall'[d].op = "report" => igCall[d].op = "report"
      BY <1>7, <1>8, <1>9, <1>10, <2>1 DEF Kept
    <3> QED BY <1>19, <3>1 DEF IgInv, IgOrder
  <2> QED BY <2>1 DEF IgOrder, NotLater
<1>24. IgTells'
  <2>1. \A d \in IgCallers : /\ igCall'[d].pc = "tell" <=> igCall[d].pc = "tell"
                             /\ igCall'[d].pc = "tell" => igCall'[d].rep = igCall[d].rep
    BY <1>1, <1>7, <1>8, <1>9 DEF Kept
  <2>2. CASE igInfo = Ingress!NoInfo
    BY <1>2, <1>7, <1>10, <1>13, <2>1, <2>2 DEF IgInv, IgTells, Nothing
  <2>3. CASE igInfo # Ingress!NoInfo
    BY <1>2, <1>10, <2>1, <2>3 DEF IgInv, IgTells
  <2> QED BY <2>2, <2>3
<1> QED BY <1>14, <1>15, <1>16, <1>17, <1>18, <1>20, <1>21, <1>22, <1>23, <1>24 DEF IgInv

LEMMA IgWriteStateKeeps ==
  ASSUME IgInv, NEW c \in IgCallers, Ingress!WriteState(c)
  PROVE  IgInv'
<1>1. /\ igCall[c].pc = "sexec" /\ ~Ingress!OutOfDate(igCall[c]) /\ ~Ingress!Older(igCall[c])
      /\ ~igCall[c].dirty /\ igState' = igCall[c].rep
      /\ igExcused' = igExcused \cup (IF igInfo = Ingress!NoInfo THEN {"gone"} ELSE {})
  BY DEF Ingress!WriteState
<1>2. /\ UNCHANGED <<igLimits, igInfo, igKey, igIndex>> /\ UNCHANGED <<igSession, igSent, igTold>>
      /\ UNCHANGED <<igPanicked, igUsed>>
  BY DEF Ingress!WriteState
<1>3. PICK t : t = Ingress!Touched(igCall, "state")
  OBVIOUS
<1>4. PICK k : k = IF igCall[c].op = "create" THEN Ingress!NoCall
                   ELSE [igCall[c] EXCEPT !.pc = "tell"]
  OBVIOUS
<1>5. igCall' = [t EXCEPT ![c] = k]
  BY <1>3, <1>4 DEF Ingress!WriteState
<1>6. /\ t \in [IgCallers -> IgWork]
      /\ \A d \in IgCallers :
           /\ Same(igCall[d], t[d])
           /\ igCall[d].pc = "sexec" => t[d].dirty
  BY <1>3, IgTouched, IgCallOf
<1>7. /\ k \in IgWork
      /\ igCall[c].op \in {"create", "update", "report"}
      /\ igCall[c].op = "create" => k.op = "idle" /\ k.pc = "none"
      /\ igCall[c].op # "create" =>
           /\ k.op = igCall[c].op /\ k.pc = "tell" /\ k.rep = igCall[c].rep /\ k.was = igCall[c].was
  <2>1. igCall[c].op \in {"create", "update", "report"}
    BY <1>1, IgCallOf DEF IgAt, IgWork
  <2>2. CASE igCall[c].op # "create"
    <3>1. k = [igCall[c] EXCEPT !.pc = "tell"]
      BY <1>4, <2>2
    <3>2. "tell" \in IgPcs
      BY DEF IgPcs
    <3> QED BY <2>1, <2>2, <3>1, <3>2, IgCallOf DEF IgWork
  <2>3. CASE igCall[c].op = "create"
    BY <1>4, <2>1, <2>3, IgValues
  <2> QED BY <2>2, <2>3
<1>8. /\ igCall' \in [IgCallers -> IgWork] /\ igCall'[c] = k
      /\ \A d \in IgCallers : d # c => igCall'[d] = t[d]
  BY <1>5, <1>6, <1>7
<1>9. ASSUME NEW d \in IgCallers, d # c
      PROVE  /\ Kept(d)
             /\ igCall[d].pc = "sexec" => igCall'[d].dirty
  <2>1. Same(igCall[d], t[d]) /\ igCall'[d] = t[d]
    BY <1>6, <1>8, <1>9
  <2>2. Kept(d)
    BY <2>1 DEF Same, Kept
  <2> QED BY <1>6, <2>1, <2>2
<1>10. /\ igExcused \subseteq igExcused' /\ igExcused' \subseteq IgExcuses
       /\ igInfo = Ingress!NoInfo => "gone" \in igExcused'
       /\ "moved" \in igExcused' => "moved" \in igExcused
       /\ "revived" \in igExcused' => "revived" \in igExcused
       /\ "overtaken" \in igExcused' => "overtaken" \in igExcused
  BY <1>1, IgCallOf DEF IgExcuses
<1>11. igCall[c].oldState = igState /\ Reporting(igCall[c])
  BY <1>1 DEF IgInv, IgWatches, Reporting
<1>12. igCall[c].rep # Ingress!NoState /\ igCall[c].rep \in Arrived
  BY <1>11, ArrivedHas DEF IgInv, IgHistory
<1>13. /\ Past(igCall[c].rep) /\ igCall[c].rep \in Ingress!States /\ igSession \in Ingress!States
       /\ igState # Ingress!NoState =>
            Past(igState) /\ igState \in Ingress!States /\ NotLater(igState, igCall[c].rep)
  <2>1. igState # Ingress!NoState => Ingress!OldTimes(igCall[c]) = igState
    BY <1>1, <1>11, IgOldTimes
  <2>2. /\ Past(igCall[c].rep) /\ igCall[c].rep \in Ingress!States /\ igSession \in Ingress!States
        /\ Past(Ingress!OldTimes(igCall[c])) /\ Ingress!OldTimes(igCall[c]) \in Ingress!States
    BY <1>1, IgOldTimes
  <2>3. NotLater(Ingress!OldTimes(igCall[c]), igCall[c].rep)
    BY <1>1, <2>2 DEF Ingress!OutOfDate, Ingress!Older, NotLater, Ingress!States
  <2> QED BY <2>1, <2>2, <2>3
<1>14. igCall[c].op = "create" =>
         /\ igCall[c].rep = Ingress!Fresh
         /\ igState = Ingress!NoState \/ igState = Ingress!Fresh
  <2>1. igCall[c].op = "create" => igCall[c].rep = Ingress!Fresh
    BY IgCallOf DEF IgAt
  <2>2. igCall[c].op = "create" /\ igState # Ingress!NoState => igState.start = 0
    BY <1>13, <2>1, IgValues DEF NotLater, Past, Ingress!States
  <2> QED BY <1>13, <2>1, <2>2 DEF Past
<1>15. IgTypes'
  BY <1>1, <1>2, <1>8, <1>10, <1>13, IgCallOf DEF IgInv, IgTypes, Ingress!IgTypeOK, IgExcuses
<1>16. IgShape'
  BY <1>7, <1>8, <1>9, IgCallOf DEF IgInv, IgShape, IgAt, Kept
<1>17. IgFirst'
  <2>1. igUsed'.calls # 0
    BY <1>2, <1>7, IgCallOf
  <2>2. ASSUME NEW e \in IgCallers, igCall'[e].op = "create", igCall'[e].pc \in {"tx", "exec"}
        PROVE  FALSE
    BY <1>1, <1>7, <1>8, <1>9, <2>2 DEF IgInv, IgFirst, Kept
  <2> QED BY <2>1, <2>2 DEF IgFirst
<1>18. IgWatches'
  <2>1. ASSUME NEW d \in IgCallers
        PROVE  /\ igCall'[d].pc = "exec" /\ ~igCall'[d].dirty => igCall'[d].old = igInfo'
               /\ igCall'[d].pc = "sexec" /\ ~igCall'[d].dirty => igCall'[d].oldState = igState'
    BY <1>2, <1>7, <1>8, <1>9, <2>1 DEF IgInv, IgWatches, Kept
  <2> QED BY <2>1 DEF IgWatches
<1>19. IgListing'
  BY <1>2, <1>10 DEF IgInv, IgListing, Ingress!StoredIsFound
<1>20. Arrived' \subseteq Arrived
  <2>1. \A d \in IgCallers :
          /\ Reporting(igCall'[d]) => igCall'[d].rep \in Arrived
          /\ igCall'[d].pc = "decide" => igCall'[d].seen \in Arrived
          /\ igCall'[d].pc = "sexec" => igCall'[d].oldState \in Arrived
    <3>1. ASSUME NEW d \in IgCallers, d = c
          PROVE  /\ Reporting(igCall'[d]) => igCall'[d].rep \in Arrived
                 /\ igCall'[d].pc = "decide" => igCall'[d].seen \in Arrived
                 /\ igCall'[d].pc = "sexec" => igCall'[d].oldState \in Arrived
      BY <1>7, <1>8, <1>12, <3>1 DEF Reporting
    <3>2. ASSUME NEW d \in IgCallers, d # c
          PROVE  /\ Reporting(igCall'[d]) => igCall'[d].rep \in Arrived
                 /\ igCall'[d].pc = "decide" => igCall'[d].seen \in Arrived
                 /\ igCall'[d].pc = "sexec" => igCall'[d].oldState \in Arrived
      BY <1>9, <3>2, ArrivedHas DEF Kept, Reporting
    <3> QED BY <3>1, <3>2
  <2>2. igState' \in Arrived
    BY <1>1, <1>12
  <2> QED BY <2>1, <2>2, ArrivedHas, ArrivedOnly
<1>21. IgHistory'
  <2>1. AllStates' \subseteq AllStates \cup Resets
    BY <1>2, <1>20 DEF AllStates
  <2>2. ASSUME NEW d \in IgCallers, Reporting(igCall'[d])
        PROVE  /\ igCall'[d].rep # Ingress!NoState
               /\ igCall'[d].op = "update" =>
                    LastOfSession(igCall'[d].rep) /\ igCall'[d].rep.status = "inactive"
    <3>1. Reporting(igCall[d]) /\ igCall'[d].rep = igCall[d].rep /\ igCall'[d].op = igCall[d].op
      BY <1>7, <1>8, <1>9, <1>11, <2>2 DEF Kept, Reporting
    <3> QED BY <3>1 DEF IgInv, IgHistory
  <2> QED BY <1>2, <2>1, <2>2, HistoryStays DEF IgInv
<1>22. IgHasState'
  <2>1. Excused5 => Excused5'
    BY <1>10 DEF Excused5
  <2>2. Ingress!InfoHasState'
    BY <1>2, <2>1 DEF IgInv, IgHasState, Ingress!InfoHasState, Excused5
  <2>3. ASSUME NEW d \in IgCallers
        PROVE  /\ igCall'[d].pc = "decide" /\ igCall'[d].seen = Ingress!NoState => Excused5'
               /\ igCall'[d].pc \in {"stx", "sexec", "tell"} /\ igCall'[d].op # "create" =>
                    IF igCall'[d].was = Ingress!NoState THEN Excused5'
                    ELSE igState' # Ingress!NoState \/ "gone" \in igExcused'
               /\ igCall'[d].pc = "sexec" /\ igCall'[d].op = "create"
                    /\ igCall'[d].oldState # Ingress!NoState =>
                    igState' # Ingress!NoState \/ Excused5'
    <3>1. CASE d = c
      BY <1>1, <1>7, <1>8, <1>12, <2>1, <3>1 DEF IgInv, IgHasState
    <3>2. CASE d # c
      BY <1>1, <1>9, <1>12, <2>1, <3>2 DEF IgInv, IgHasState, Kept
    <3> QED BY <3>1, <3>2
  <2> QED BY <1>1, <1>12, <2>2, <2>3 DEF IgHasState
<1>23. IgLast'
  <2>1. igSession.start > 0 /\ Settled => Settled'
    <3>1. ASSUME igSession.start > 0, Settled PROVE igState # Ingress!NoState
      BY <3>1, IgValues DEF Settled
    <3> QED BY <1>1, <1>2, <1>13, <3>1 DEF Settled, NotLater, Past, Ingress!States
  <2>2. igCall[c].rep = igSession => Settled'
    BY <1>1, <1>2 DEF Settled
  <2> QED BY <1>2, <1>9, <1>10, <2>1, <2>2 DEF IgInv, IgLast, Kept, Settled
<1>24. IgOrder'
  <2>1. ASSUME "overtaken" \notin igExcused', NEW e \in IgCallers, igCall'[e].op = "report"
        PROVE  /\ \A d \in IgCallers : igCall'[d].op = "report" => e = d
               /\ \A t2 \in Arrived' : NotLater(t2, igCall'[e].rep)
    <3>1. /\ "overtaken" \notin igExcused /\ igCall[e].op = "report" /\ igCall'[e].rep = igCall[e].rep
          /\ \A d \in IgCallers : igCall'[d].op = "report" => igCall[d].op = "report"
      BY <1>7, <1>8, <1>9, <1>10, <2>1 DEF Kept
    <3> QED BY <1>20, <3>1 DEF IgInv, IgOrder
  <2> QED BY <2>1 DEF IgOrder, NotLater
<1>25. IgTells'
  <2>1. CASE igCall[c].op # "create"
    <3>1. igCall'[c].pc = "tell" /\ igCall'[c].rep = igState'
      BY <1>1, <1>7, <1>8, <2>1
    <3> QED BY <1>1, <1>12, <3>1 DEF IgTells
  <2>2. CASE igCall[c].op = "create"
    <3>1. igState' = Ingress!Fresh /\ igState' # Ingress!NoState /\ igState'.status = "inactive"
      BY <1>1, <1>14, <2>2, IgValues
    <3>2. \A d \in IgCallers : /\ igCall'[d].pc = "tell" <=> igCall[d].pc = "tell"
                               /\ igCall'[d].pc = "tell" => igCall'[d].rep = igCall[d].rep
      BY <1>1, <1>7, <1>8, <1>9, <2>2 DEF Kept
    <3>3. \A d \in IgCallers : igCall[d].pc = "tell" => igCall[d].rep # Ingress!NoState
      BY DEF IgInv, IgHistory, Reporting
    <3>4. CASE igState = Ingress!NoState
      <4>1. igExcused' \cap {"overtaken", "creating", "gone", "revived", "gaveUp", "failed"} = {} =>
              (\A d \in IgCallers : igCall[d].pc # "tell") /\ (igInfo # Ingress!NoInfo => igTold = "inactive")
        BY <1>10, <3>3, <3>4 DEF IgInv, IgTells
      <4> QED BY <1>2, <3>1, <3>2, <4>1 DEF IgTells
    <3>5. CASE igState = Ingress!Fresh
      BY <1>2, <1>10, <3>1, <3>2, <3>5 DEF IgInv, IgTells
    <3> QED BY <1>14, <2>2, <3>4, <3>5
  <2> QED BY <2>1, <2>2
<1> QED BY <1>15, <1>16, <1>17, <1>18, <1>19, <1>21, <1>22, <1>23, <1>24, <1>25 DEF IgInv

LEMMA IgTellKeeps ==
  ASSUME IgInv, NEW c \in IgCallers, Ingress!Tell(c)
  PROVE  IgInv'
<1>1. /\ igCall[c].pc = "tell"
      /\ \/ igCall[c].was = Ingress!NoState /\ igPanicked' = TRUE /\ Ingress!Ends(c)
         \/ /\ igCall[c].was # Ingress!NoState /\ igTold' = igCall[c].rep.status
            /\ UNCHANGED igPanicked /\ igCall[c].op = "update"
            /\ igCall' = [igCall EXCEPT ![c].pc = "tx", ![c].tries = 0]
         \/ /\ igCall[c].was # Ingress!NoState /\ igTold' = igCall[c].rep.status
            /\ UNCHANGED igPanicked /\ igCall[c].op # "update" /\ Ingress!Ends(c)
      /\ igExcused' = igExcused
           \cup (IF \E d \in IgCallers \ {c} : igCall[d].pc \in {"sexec", "tell"}
                 THEN {"overtaken"} ELSE {})
  BY DEF Ingress!Tell
<1>2. /\ UNCHANGED <<igLimits, igInfo, igKey, igIndex>> /\ UNCHANGED <<igState, igSession, igSent>>
      /\ UNCHANGED igUsed
  BY DEF Ingress!Tell
<1>3. /\ Others(c) /\ igCall[c].op \in {"update", "report"}
      /\ igCall'[c].pc \in {"none", "tx"}
      /\ igCall'[c].pc = "none" => igCall'[c].op = "idle"
      /\ igCall'[c].pc = "tx" => igCall'[c].op = "update"
  <2>1. "tx" \in IgPcs /\ 0 \in Int
    BY DEF IgPcs
  <2>2. Others(c) /\ (Ended(c) \/ (igCall[c].op = "update" /\ Moved(c, "tx")))
    BY <1>1, <2>1, IgEnds, IgMovesTries, IgCallOf, Zenon
  <2>3. igCall[c].op \in {"update", "report"}
    BY <1>1, IgCallOf DEF IgAt, IgWork
  <2> QED BY <2>2, <2>3 DEF Ended, Moved
<1>4. ASSUME NEW d \in IgCallers, d # c PROVE Kept(d)
  BY <1>3, <1>4 DEF Others
<1>5. /\ igExcused \subseteq igExcused' /\ igExcused' \subseteq IgExcuses
      /\ \A d \in IgCallers : d # c /\ igCall[d].pc \in {"sexec", "tell"} => "overtaken" \in igExcused'
      /\ "moved" \in igExcused' => "moved" \in igExcused
      /\ "revived" \in igExcused' => "revived" \in igExcused
  BY <1>1, IgCallOf DEF IgExcuses
<1>6. igCall[c].was = Ingress!NoState => Excused5
  BY <1>1, <1>3 DEF IgInv, IgHasState
<1>7. IgTypes'
  <2>1. igPanicked' \in BOOLEAN
    BY <1>1, IgCallOf
  <2> QED BY <1>2, <1>3, <1>5, <2>1, IgTypesStay, IgCallOf DEF IgInv, Others
<1>8. IgShape'
  BY <1>3, <1>4 DEF IgInv, IgShape, IgAt, Kept
<1>9. IgFirst'
  <2>1. igUsed'.calls # 0
    BY <1>2, <1>3, IgCallOf
  <2>2. ASSUME NEW e \in IgCallers, igCall'[e].op = "create", igCall'[e].pc \in {"tx", "exec"}
        PROVE  FALSE
    BY <1>1, <1>3, <1>4, <2>2 DEF IgInv, IgFirst, Kept
  <2> QED BY <2>1, <2>2 DEF IgFirst
<1>10. IgWatches'
  <2>1. ASSUME NEW d \in IgCallers
        PROVE  /\ igCall'[d].pc = "exec" /\ ~igCall'[d].dirty => igCall'[d].old = igInfo'
               /\ igCall'[d].pc = "sexec" /\ ~igCall'[d].dirty => igCall'[d].oldState = igState'
    BY <1>2, <1>3, <1>4, <2>1 DEF IgInv, IgWatches, Kept
  <2> QED BY <2>1 DEF IgWatches
<1>11. IgListing'
  BY <1>2, <1>5 DEF IgInv, IgListing, Ingress!StoredIsFound
<1>12. Arrived' \subseteq Arrived
  <2>1. \A d \in IgCallers :
          /\ Reporting(igCall'[d]) => igCall'[d].rep \in Arrived
          /\ igCall'[d].pc = "decide" => igCall'[d].seen \in Arrived
          /\ igCall'[d].pc = "sexec" => igCall'[d].oldState \in Arrived
    BY <1>3, <1>4, ArrivedHas DEF Kept, Reporting
  <2>2. igState' \in Arrived
    BY <1>2, ArrivedHas
  <2> QED BY <2>1, <2>2, ArrivedHas, ArrivedOnly
<1>13. IgHistory'
  <2>1. AllStates' \subseteq AllStates \cup Resets
    BY <1>2, <1>12 DEF AllStates
  <2>2. ASSUME NEW d \in IgCallers, Reporting(igCall'[d])
        PROVE  /\ igCall'[d].rep # Ingress!NoState
               /\ igCall'[d].op = "update" =>
                    LastOfSession(igCall'[d].rep) /\ igCall'[d].rep.status = "inactive"
    <3>1. Reporting(igCall[d]) /\ igCall'[d].rep = igCall[d].rep /\ igCall'[d].op = igCall[d].op
      BY <1>3, <1>4, <2>2 DEF Kept, Reporting
    <3> QED BY <3>1 DEF IgInv, IgHistory
  <2> QED BY <1>2, <2>1, <2>2, HistoryStays DEF IgInv
<1>14. IgHasState'
  <2>1. Excused5 => Excused5'
    BY <1>5 DEF Excused5
  <2>2. Ingress!InfoHasState'
    BY <1>1, <1>6, <2>1 DEF IgInv, IgHasState, Ingress!InfoHasState, Excused5
  <2>3. Ingress!Creating => Ingress!Creating'
    BY <1>3, <1>4 DEF Ingress!Creating, Kept
  <2>4. ASSUME NEW d \in IgCallers
        PROVE  /\ igCall'[d].pc = "decide" /\ igCall'[d].seen = Ingress!NoState => Excused5'
               /\ igCall'[d].pc \in {"stx", "sexec", "tell"} /\ igCall'[d].op # "create" =>
                    IF igCall'[d].was = Ingress!NoState THEN Excused5'
                    ELSE igState' # Ingress!NoState \/ "gone" \in igExcused'
               /\ igCall'[d].pc = "sexec" /\ igCall'[d].op = "create"
                    /\ igCall'[d].oldState # Ingress!NoState =>
                    igState' # Ingress!NoState \/ Excused5'
    <3>1. CASE d = c
      BY <1>3, <3>1
    <3>2. CASE d # c
      BY <1>2, <1>4, <1>5, <2>1, <3>2 DEF IgInv, IgHasState, Kept
    <3> QED BY <3>1, <3>2
  <2> QED BY <1>2, <2>1, <2>2, <2>3, <2>4 DEF IgInv, IgHasState
<1>15. IgLast'
  BY <1>1, <1>2, <1>4, <1>5 DEF IgInv, IgLast, Kept
<1>16. IgOrder'
  <2>1. ASSUME "overtaken" \notin igExcused', NEW e \in IgCallers, igCall'[e].op = "report"
        PROVE  /\ \A d \in IgCallers : igCall'[d].op = "report" => e = d
               /\ \A t2 \in Arrived' : NotLater(t2, igCall'[e].rep)
    <3>1. /\ "overtaken" \notin igExcused /\ igCall[e].op = "report" /\ igCall'[e].rep = igCall[e].rep
          /\ \A d \in IgCallers : igCall'[d].op = "report" => igCall[d].op = "report"
      BY <1>3, <1>4, <1>5, <2>1 DEF Kept
    <3> QED BY <1>12, <3>1 DEF IgInv, IgOrder
  <2> QED BY <2>1 DEF IgOrder, NotLater
<1>17. IgTells'
  <2>1. ASSUME igExcused' \cap {"overtaken", "creating", "gone", "revived", "gaveUp", "failed"} = {}
        PROVE  /\ \A d \in IgCallers : igCall'[d].pc # "tell"
               /\ igState' # Ingress!NoState /\ igTold' = igState'.status
    <3>1. igExcused \cap {"overtaken", "creating", "gone", "revived", "gaveUp", "failed"} = {}
      BY <1>5, <2>1
    <3>2. \A d \in IgCallers : d # c => igCall[d].pc # "tell"
      BY <1>5, <2>1
    <3>3. igCall[c].rep = igState
      BY <1>1, <3>1, <3>2 DEF IgInv, IgTells
    <3>4. igCall[c].rep # Ingress!NoState
      BY <1>1 DEF IgInv, IgHistory, Reporting
    <3>5. igCall[c].was # Ingress!NoState
      BY <1>6, <3>1 DEF Excused5
    <3>6. igTold' = igCall[c].rep.status
      BY <1>1, <3>5
    <3>7. \A d \in IgCallers : igCall'[d].pc # "tell"
      BY <1>3, <1>4, <3>2 DEF Kept
    <3> QED BY <1>2, <3>3, <3>4, <3>6, <3>7
  <2> QED BY <2>1 DEF IgTells
<1> QED BY <1>7, <1>8, <1>9, <1>10, <1>11, <1>13, <1>14, <1>15, <1>16, <1>17 DEF IgInv

(* The session on the ingress server goes on, and with it perhaps a delete. *)
LEMMA IgSessionKeeps ==
  ASSUME IgInv, igCall' \in [IgCallers -> IgWork],
         \A d \in IgCallers :
           \/ Kept(d)
           \/ igCall[d].pc = "decide" /\ igCall[d].op = "delete" /\ Moved(d, "remove"),
         UNCHANGED <<igLimits, igInfo, igKey, igIndex>>,
         UNCHANGED <<igState, igTold>>, UNCHANGED <<igExcused, igPanicked, igUsed>>,
         ~Nothing, NEW n \in Ingress!States, igSession' = n, igSent' = igSent \cup {n},
         n.status # "none", n.start > 0, n.upd >= 0,
         \/ n.start > igSession.start
         \/ /\ n.start = igSession.start /\ n.upd = igSession.upd + 1
            /\ igSession.status \in Ingress!Active
  PROVE  IgInv'
<1>1. IgTypes'
  BY DEF IgInv, IgTypes, Ingress!IgTypeOK
<1>2. ASSUME NEW d \in IgCallers
      PROVE  /\ igCall'[d].op = igCall[d].op /\ igCall'[d].rep = igCall[d].rep
             /\ igCall'[d].seen = igCall[d].seen /\ igCall'[d].was = igCall[d].was
             /\ igCall'[d].old = igCall[d].old /\ igCall'[d].oldState = igCall[d].oldState
             /\ \/ igCall'[d].pc = igCall[d].pc
                \/ /\ igCall'[d].pc = "remove" /\ igCall[d].pc = "decide"
                   /\ igCall[d].op = "delete"
             /\ igCall[d].dirty => igCall'[d].dirty
  BY DEF Kept, Moved
<1>3. IgShape'
  BY <1>2 DEF IgInv, IgShape, IgAt
<1>4. IgFirst'
  BY <1>2 DEF IgInv, IgFirst
<1>5. IgWatches'
  <2>1. ASSUME NEW d \in IgCallers
        PROVE  /\ igCall'[d].pc = "exec" /\ ~igCall'[d].dirty => igCall'[d].old = igInfo'
               /\ igCall'[d].pc = "sexec" /\ ~igCall'[d].dirty => igCall'[d].oldState = igState'
    BY <1>2, <2>1 DEF IgInv, IgWatches
  <2> QED BY <2>1 DEF IgWatches
<1>6. IgListing'
  BY DEF IgInv, IgListing, Ingress!StoredIsFound
<1>7. Arrived' \subseteq Arrived
  <2>1. \A d \in IgCallers :
          /\ Reporting(igCall'[d]) => igCall'[d].rep \in Arrived
          /\ igCall'[d].pc = "decide" => igCall'[d].seen \in Arrived
          /\ igCall'[d].pc = "sexec" => igCall'[d].oldState \in Arrived
    BY <1>2, ArrivedHas DEF Reporting
  <2>2. igState' \in Arrived
    BY ArrivedHas
  <2> QED BY <2>1, <2>2, ArrivedHas, ArrivedOnly
<1>8. AllStates' \subseteq AllStates \cup {n} /\ AllStates \subseteq Ingress!States
  BY <1>7, StatesTyped DEF AllStates
<1>9. igSession \in Ingress!States /\ Past(igSession)
  BY StatesTyped
<1>10. ASSUME NEW s \in AllStates, s # Ingress!NoState PROVE Past(s) /\ Past(s)'
  <2>1. Past(s) /\ s \in Ingress!States
    BY <1>8, <1>10 DEF IgInv, IgHistory
  <2> QED BY <1>9, <2>1 DEF Past, Ingress!States
<1>11. Past(n)'
  BY DEF Past, Ingress!States
<1>12. ASSUME NEW s \in AllStates, s # Ingress!NoState, s.status \notin Ingress!Active, LastOfSession(s)
       PROVE  /\ s.start # n.start
              /\ \A t \in AllStates' : t.start = s.start => t.upd <= s.upd
  <2>1. Past(s) /\ s \in Ingress!States /\ (s.start = igSession.start => igSession.upd <= s.upd)
    BY <1>8, <1>10, <1>12 DEF LastOfSession, AllStates
  <2>2. s.start = igSession.start => s.upd = igSession.upd
    BY <1>9, <2>1 DEF Past, Ingress!States
  <2>3. s.start = igSession.start => igSession.status \notin Ingress!Active
    BY <1>12, <2>1, <2>2 DEF Past, Ingress!Active
  <2>4. s.start # n.start
    BY <1>9, <2>1, <2>3 DEF Past, Ingress!States
  <2> QED BY <1>8, <1>12, <2>4 DEF LastOfSession
<1>13. IgHistory'
  <2>1. \A s \in AllStates' : s = Ingress!NoState \/ Past(s)'
    BY <1>8, <1>10, <1>11
  <2>2. ASSUME NEW s \in AllStates', s.status = "error" PROVE LastOfSession(s)'
    <3>1. CASE s = n
      <4>1. ASSUME NEW t \in AllStates', t.start = n.start PROVE t.upd <= n.upd
        <5>1. CASE t = n
          BY <5>1 DEF Ingress!States
        <5>2. CASE t # n
          <6>1. t \in AllStates /\ t # Ingress!NoState
            BY <1>8, <4>1, <5>2, IgValues
          <6>2. Past(t) /\ t \in Ingress!States
            BY <1>8, <1>10, <6>1
          <6> QED BY <1>9, <4>1, <6>2 DEF Past, Ingress!States
        <5> QED BY <5>1, <5>2
      <4> QED BY <3>1, <4>1 DEF LastOfSession
    <3>2. CASE s # n
      <4>1. s \in AllStates /\ s # Ingress!NoState /\ s.status \notin Ingress!Active /\ LastOfSession(s)
        BY <1>8, <2>2, <3>2, IgValues DEF IgInv, IgHistory, Ingress!Active
      <4> QED BY <1>12, <4>1 DEF LastOfSession
    <3> QED BY <3>1, <3>2
  <2>3. ASSUME NEW c \in IgCallers, igCall'[c].op = "update", Reporting(igCall[c])'
        PROVE  (LastOfSession(igCall[c].rep))' /\ igCall'[c].rep.status = "inactive"
    <3>1. Reporting(igCall[c]) /\ igCall'[c].rep = igCall[c].rep /\ igCall[c].op = "update"
      BY <1>2, <2>3 DEF Reporting
    <3>2. /\ igCall[c].rep \in AllStates /\ igCall[c].rep # Ingress!NoState
          /\ igCall[c].rep.status = "inactive" /\ LastOfSession(igCall[c].rep)
      BY <3>1, ArrivedHas DEF IgInv, IgHistory, AllStates
    <3>3. igCall[c].rep.status \notin Ingress!Active
      BY <3>2 DEF Ingress!Active
    <3>4. \A t \in AllStates' : t.start = igCall[c].rep.start => t.upd <= igCall[c].rep.upd
      BY <1>12, <3>2, <3>3
    <3> QED BY <3>1, <3>2, <3>4 DEF LastOfSession
  <2>4. \A c \in IgCallers : Reporting(igCall[c])' => igCall'[c].rep # Ingress!NoState
    BY <1>2 DEF IgInv, IgHistory, Reporting
  <2>5. igSession' # Ingress!NoState /\ Ingress!NoState \notin igSent'
    BY IgValues DEF IgInv, IgHistory
  <2> QED BY <2>1, <2>2, <2>3, <2>4, <2>5 DEF IgHistory
<1>14. IgHasState'
  <2>1. Excused5' <=> Excused5
    BY DEF Excused5
  <2>2. Ingress!InfoHasState'
    BY DEF IgInv, IgHasState, Ingress!InfoHasState
  <2>3. Ingress!Creating => Ingress!Creating'
    BY <1>2 DEF Ingress!Creating
  <2>4. ASSUME NEW d \in IgCallers
        PROVE  /\ igCall'[d].pc = "decide" /\ igCall'[d].seen = Ingress!NoState => Excused5'
               /\ igCall'[d].pc \in {"stx", "sexec", "tell"} /\ igCall'[d].op # "create" =>
                    IF igCall'[d].was = Ingress!NoState THEN Excused5'
                    ELSE igState' # Ingress!NoState \/ "gone" \in igExcused'
               /\ igCall'[d].pc = "sexec" /\ igCall'[d].op = "create"
                    /\ igCall'[d].oldState # Ingress!NoState =>
                    igState' # Ingress!NoState \/ Excused5'
    BY <1>2, <2>1, <2>4 DEF IgInv, IgHasState
  <2> QED BY <2>1, <2>2, <2>3, <2>4 DEF IgInv, IgHasState
<1>15. IgLast'
  BY DEF IgLast
<1>16. IgOrder'
  <2>1. ASSUME "overtaken" \notin igExcused', NEW e \in IgCallers, igCall'[e].op = "report"
        PROVE  /\ \A d \in IgCallers : igCall'[d].op = "report" => e = d
               /\ \A t2 \in Arrived' : NotLater(t2, igCall'[e].rep)
    BY <1>2, <1>7, <2>1 DEF IgInv, IgOrder
  <2> QED BY <2>1 DEF IgOrder, NotLater
<1>17. IgTells'
  <2>1. \A d \in IgCallers : /\ igCall'[d].pc = "tell" <=> igCall[d].pc = "tell"
                             /\ igCall'[d].pc = "tell" => igCall'[d].rep = igCall[d].rep
    BY <1>2
  <2> QED BY <2>1 DEF IgInv, IgTells
<1> QED BY <1>1, <1>3, <1>4, <1>5, <1>6, <1>13, <1>14, <1>15, <1>16, <1>17 DEF IgInv

LEMMA IgSessionStartsKeeps ==
  ASSUME IgInv, Ingress!SessionStarts
  PROVE  IgInv'
<1>1. PICK n : n = [start |-> igSession.start + 1, upd |-> 1, status |-> "buffering"]
  OBVIOUS
<1>2. /\ igSession' = n /\ igSent' = igSent \cup {n} /\ igInfo # Ingress!NoInfo
      /\ UNCHANGED <<igLimits, igInfo, igKey, igIndex>>
      /\ UNCHANGED <<igState, igTold>> /\ UNCHANGED <<igExcused, igPanicked, igUsed>> /\ UNCHANGED igCall
  BY <1>1 DEF Ingress!SessionStarts
<1>3. igSession \in Ingress!States /\ igSession.start >= 0
  BY StatesTyped
<1>4. n \in Ingress!States /\ n.status # "none" /\ n.start > 0 /\ n.upd >= 0 /\ n.start > igSession.start
  BY <1>1, <1>3 DEF Ingress!States, Ingress!Active
<1>5. ~Nothing
  BY <1>2 DEF Nothing
<1>6. igCall' \in [IgCallers -> IgWork] /\ \A d \in IgCallers : Kept(d)
  BY <1>2 DEF IgInv, IgTypes, Kept
<1> QED BY <1>2, <1>4, <1>5, <1>6, IgSessionKeeps

(* A report of the session.                                                 *)
LEMMA IgNextReport ==
  ASSUME IgInv, igSession.status \in Ingress!Active, NEW s,
         s \in Ingress!Active \cup {"inactive", "error", "complete"},
         NEW n, n = [igSession EXCEPT !.upd = @ + 1, !.status = s]
  PROVE  /\ n \in Ingress!States /\ n.status # "none" /\ n.start > 0 /\ n.upd >= 0
         /\ n.start = igSession.start /\ n.upd = igSession.upd + 1 /\ ~Nothing
<1>1. igSession \in Ingress!States /\ Past(igSession)
  BY StatesTyped
<1>2. n \in Ingress!States /\ n.start = igSession.start /\ n.upd = igSession.upd + 1 /\ n.status = s
  <2>1. s \in Ingress!Active \cup {"none", "inactive", "error", "complete"}
    OBVIOUS
  <2>2. /\ igSession.upd \in Int /\ igSession.upd + 1 \in Int
        /\ igSession \in [start : Int, upd : Int,
                          status : Ingress!Active \cup {"none", "inactive", "error", "complete"}]
    BY <1>1 DEF Ingress!States
  <2>3. /\ n \in [start : Int, upd : Int,
                   status : Ingress!Active \cup {"none", "inactive", "error", "complete"}]
        /\ n.start = igSession.start /\ n.upd = igSession.upd + 1 /\ n.status = s
    BY <2>1, <2>2
  <2> QED BY <2>3 DEF Ingress!States
<1>3. igSession # Ingress!Fresh
  BY IgValues DEF Ingress!Active
<1>4. n.start > 0 /\ n.upd >= 0
  BY <1>1, <1>2, <1>3 DEF Past, Ingress!States
<1>5. s # "none"
  BY DEF Ingress!Active
<1> QED BY <1>2, <1>3, <1>4, <1>5 DEF Nothing

LEMMA IgSessionReportsKeeps ==
  ASSUME IgInv, Ingress!SessionReports
  PROVE  IgInv'
<1>1. PICK s \in Ingress!Active \cup {"inactive", "error", "complete"} :
        /\ igSession' = [igSession EXCEPT !.upd = @ + 1, !.status = s]
        /\ igSent' = igSent \cup {igSession'}
  BY DEF Ingress!SessionReports, Ingress!Active
<1>2. /\ igSession.status \in Ingress!Active
      /\ UNCHANGED <<igLimits, igInfo, igKey, igIndex>>
      /\ UNCHANGED <<igState, igTold>> /\ UNCHANGED <<igExcused, igPanicked, igUsed>> /\ UNCHANGED igCall
  BY DEF Ingress!SessionReports
<1>3. PICK n : n = [igSession EXCEPT !.upd = @ + 1, !.status = s]
  OBVIOUS
<1>4. /\ n \in Ingress!States /\ n.status # "none" /\ n.start > 0 /\ n.upd >= 0
      /\ n.start = igSession.start /\ n.upd = igSession.upd + 1 /\ ~Nothing
  BY <1>2, <1>3, IgNextReport, Zenon
<1>5. igSession' = n /\ igSent' = igSent \cup {n}
  BY <1>1, <1>3
<1>6. igCall' \in [IgCallers -> IgWork] /\ \A d \in IgCallers : Kept(d)
  BY <1>2 DEF IgInv, IgTypes, Kept
<1> QED BY <1>2, <1>4, <1>5, <1>6, IgSessionKeeps

LEMMA IgDeleteDecidesKeeps ==
  ASSUME IgInv, NEW c \in IgCallers, Ingress!DeleteDecides(c)
  PROVE  IgInv'
<1>1. /\ UNCHANGED <<igLimits, igInfo, igKey, igIndex>>
      /\ UNCHANGED <<igState, igTold>> /\ UNCHANGED <<igExcused, igUsed>>
      /\ igCall[c].pc = "decide" /\ igCall[c].op = "delete"
  BY DEF Ingress!DeleteDecides
<1>2. "remove" \in IgPcs
  BY DEF IgPcs
<1>3. CASE igCall[c].seen = Ingress!NoState
  <2>1. igPanicked' = TRUE /\ Ingress!Ends(c) /\ UNCHANGED <<igSession, igSent>>
    BY <1>3 DEF Ingress!DeleteDecides
  <2>2. Others(c) /\ Ended(c)
    BY <2>1, IgEnds, IgCallOf
  <2>3. Excused5'
    BY <1>1, <1>3 DEF IgInv, IgHasState, Excused5
  <2>4. igPanicked' \in BOOLEAN
    BY <2>1
  <2> QED BY <1>1, <2>1, <2>2, <2>3, <2>4, IgLeaveKeeps, IgCallOf
<1>4. CASE igCall[c].seen # Ingress!NoState /\ UNCHANGED <<igSession, igSent>>
  <2>1. Ingress!Goes(c, "remove") /\ UNCHANGED igPanicked
    BY <1>4 DEF Ingress!DeleteDecides
  <2>2. Others(c) /\ Moved(c, "remove")
    BY <1>2, <2>1, IgMoves, IgCallOf
  <2>3. IgTypes'
    BY <1>1, <1>4, <2>1, <2>2, IgTypesStay, IgCallOf DEF IgInv, Others
  <2>4. IgAt(igCall'[c]) /\ ~Reporting(igCall'[c]) /\ igCall'[c].op = "delete"
    BY <1>1, <2>2 DEF IgAt, Moved, Reporting
  <2>5. igUsed'.calls = 0 => igUsed.calls = 0 /\ igCall'[c].op = "idle"
    BY <1>1, IgCallOf
  <2> QED BY <1>1, <1>4, <2>1, <2>2, <2>3, <2>4, <2>5, IgMoveKeeps DEF Moved
<1>5. CASE /\ igCall[c].seen # Ingress!NoState /\ igSession.status \in Ingress!Active
           /\ igSession' = [igSession EXCEPT !.upd = @ + 1, !.status = "inactive"]
           /\ igSent' = igSent \cup {igSession'}
  <2>1. Ingress!Goes(c, "remove") /\ UNCHANGED igPanicked
    BY <1>5 DEF Ingress!DeleteDecides
  <2>2. Others(c) /\ Moved(c, "remove")
    BY <1>2, <2>1, IgMoves, IgCallOf
  <2>3. PICK n : n = [igSession EXCEPT !.upd = @ + 1, !.status = "inactive"]
    OBVIOUS
  <2>4. /\ n \in Ingress!States /\ n.status # "none" /\ n.start > 0 /\ n.upd >= 0
        /\ n.start = igSession.start /\ n.upd = igSession.upd + 1 /\ ~Nothing
    BY <1>5, <2>3, IgNextReport, Zenon
  <2>5. igSession' = n /\ igSent' = igSent \cup {n}
    BY <1>5, <2>3
  <2>6. /\ igCall' \in [IgCallers -> IgWork]
        /\ \A d \in IgCallers :
             \/ Kept(d)
             \/ igCall[d].pc = "decide" /\ igCall[d].op = "delete" /\ Moved(d, "remove")
    BY <1>1, <2>2 DEF Others
  <2> QED BY <1>1, <1>5, <2>1, <2>4, <2>5, <2>6, IgSessionKeeps
<1> QED BY <1>3, <1>4, <1>5 DEF Ingress!DeleteDecides

LEMMA IgInitHolds ==
  ASSUME Ingress!IgInit PROVE IgInv
<1>1. /\ igInfo = Ingress!NoInfo /\ igKey = FALSE /\ igIndex = {} /\ igState = Ingress!NoState
      /\ igCall = [c \in IgCallers |-> Ingress!NoCall]
      /\ igSession = Ingress!Fresh /\ igSent = {} /\ igTold = "inactive"
      /\ igExcused = {} /\ igPanicked = FALSE
      /\ igUsed = [calls |-> 0, foreign |-> 0, faults |-> 0]
  BY DEF Ingress!IgInit
<1>2. \A c \in IgCallers : igCall[c].op = "idle" /\ igCall[c].pc = "none"
  BY <1>1, IgValues
<1>3. IgTypes
  BY <1>1, IgValues DEF IgTypes, Ingress!IgTypeOK
<1>4. IgShape /\ IgFirst /\ IgWatches
  BY <1>1, <1>2 DEF IgShape, IgAt, IgFirst, Nothing, IgWatches
<1>5. IgListing
  BY <1>1 DEF IgListing, Ingress!StoredIsFound
<1>6. AllStates \subseteq {Ingress!Fresh, Ingress!NoState}
  BY <1>1, <1>2 DEF AllStates, Arrived, Reporting
<1>7. IgHistory
  <2>1. Past(Ingress!Fresh)
    BY <1>1, IgValues DEF Past
  <2>2. \A c \in IgCallers : ~Reporting(igCall[c])
    BY <1>2 DEF Reporting
  <2>3. \A s \in AllStates : s.status # "error"
    BY <1>6, IgValues
  <2> QED BY <1>1, <1>6, <2>1, <2>2, <2>3, IgValues DEF IgHistory
<1>8. IgHasState
  BY <1>1, <1>2 DEF IgHasState, Ingress!InfoHasState
<1>9. IgLast /\ IgOrder /\ IgTells
  BY <1>1, <1>2 DEF IgLast, IgOrder, IgTells
<1> QED BY <1>3, <1>4, <1>5, <1>7, <1>8, <1>9 DEF IgInv

LEMMA IgStays ==
  ASSUME IgInv, UNCHANGED <<igLimits, igInfo, igKey, igIndex, igState, igCall>>,
         UNCHANGED <<igSession, igSent, igTold, igExcused, igPanicked, igUsed>>
  PROVE  IgInv'
<1>1. IgTypes' /\ IgShape' /\ IgFirst' /\ IgWatches'
  BY DEF IgInv, IgTypes, Ingress!IgTypeOK, IgShape, IgAt, IgFirst, Nothing, IgWatches
<1>2. IgListing' /\ IgHasState'
  BY DEF IgInv, IgListing, Ingress!StoredIsFound, IgHasState, Ingress!InfoHasState,
         Ingress!Creating, Excused5
<1>3. Arrived' = Arrived /\ AllStates' = AllStates
  BY DEF Arrived, AllStates, Reporting
<1>4. IgHistory'
  BY <1>3 DEF IgInv, IgHistory, Past, LastOfSession, Reporting
<1>5. IgLast' /\ IgTells'
  BY DEF IgInv, IgLast, IgTells
<1>6. IgOrder'
  BY <1>3 DEF IgInv, IgOrder, NotLater
<1> QED BY <1>1, <1>2, <1>4, <1>5, <1>6 DEF IgInv

LEMMA IgNextKeeps ==
  ASSUME IgInv, Ingress!IgNext PROVE IgInv'
<1>1. CASE Ingress!SessionStarts \/ Ingress!SessionReports \/ Ingress!OtherIngress
  BY <1>1, IgSessionStartsKeeps, IgSessionReportsKeeps, IgOtherKeeps
<1>2. ASSUME NEW c \in IgCallers,
             \/ Ingress!CreateIngress(c) \/ Ingress!UpdateIngress(c) \/ Ingress!DeleteIngress(c)
             \/ Ingress!ReportArrives(c) \/ Ingress!LoadInfo(c) \/ Ingress!LoadState(c)
             \/ Ingress!UpdateDecides(c) \/ Ingress!DeleteDecides(c) \/ Ingress!Remove(c)
      PROVE  IgInv'
  BY <1>2, IgCreateKeeps, IgUpdateBegins, IgReportArrivesKeeps, IgLoadInfoKeeps, IgLoadStateKeeps,
     IgUpdateDecidesKeeps, IgDeleteDecidesKeeps, IgRemoveKeeps
<1>3. ASSUME NEW c \in IgCallers,
             \/ Ingress!ReadRoom(c) \/ Ingress!WriteInfo(c) \/ Ingress!RetryInfo(c)
             \/ Ingress!ReadState(c) \/ Ingress!RefuseState(c) \/ Ingress!DropState(c)
             \/ Ingress!WriteState(c) \/ Ingress!RetryState(c) \/ Ingress!Tell(c)
             \/ Ingress!RedisFails(c)
      PROVE  IgInv'
  BY <1>3, IgReadRoomKeeps, IgWriteInfoKeeps, IgRetryInfoKeeps, IgReadStateKeeps, IgRefuseStateKeeps,
     IgDropStateKeeps, IgWriteStateKeeps, IgRetryStateKeeps, IgTellKeeps, IgRedisFailsKeeps
<1> QED BY <1>1, <1>2, <1>3 DEF Ingress!IgNext

LEMMA IgInvShows ==
  ASSUME IgInv
  PROVE  /\ Ingress!StoredIsFound /\ Ingress!ListedIsStored /\ Ingress!LastReportWins
         /\ Ingress!ToldIsStored /\ Ingress!InfoHasState
<1>1. Ingress!StoredIsFound /\ Ingress!InfoHasState
  BY DEF IgInv, IgListing, IgHasState
<1>2. Ingress!ListedIsStored
  BY DEF IgInv, IgListing, Ingress!ListedIsStored, Ingress!ListIngress
<1>3. Ingress!Quiet => igSent = {} /\ \A c \in IgCallers : igCall[c].op = "idle" /\ igCall[c].pc = "none"
  BY IgCallOf DEF Ingress!Quiet
<1>4. Ingress!LastReportWins
  <2>1. ASSUME Ingress!Quiet, igInfo # Ingress!NoInfo, igSession.start > 0,
               igExcused \cap {"gone", "revived", "gaveUp", "failed"} = {}
        PROVE  /\ igState.start = igSession.start /\ igState.upd = igSession.upd
               /\ \/ igState.status = igSession.status
                  \/ igSession.status = "error" /\ igState.status = "inactive"
    <3>1. igState.start = igSession.start /\ igState.upd = igSession.upd
      BY <1>3, <2>1 DEF IgInv, IgLast
    <3>2. igState # Ingress!NoState
      BY <2>1, <3>1, IgValues
    <3>3. Past(igState)
      BY <3>2, ArrivedHas DEF IgInv, IgHistory, AllStates
    <3> QED BY <3>1, <3>3 DEF Past
  <2> QED BY <2>1 DEF Ingress!LastReportWins
<1>5. Ingress!ToldIsStored
  <2>1. ASSUME Ingress!Quiet, igInfo # Ingress!NoInfo,
               igExcused \cap {"overtaken", "creating", "gone", "revived", "gaveUp", "failed"} = {}
        PROVE  igTold = igState.status
    <3>1. igState # Ingress!NoState
      BY <1>3, <2>1 DEF IgInv, IgHasState, Excused5, Ingress!Creating
    <3> QED BY <1>3, <2>1, <3>1 DEF IgInv, IgTells
  <2> QED BY <2>1 DEF Ingress!ToldIsStored
<1> QED BY <1>1, <1>2, <1>4, <1>5

-----------------------------------------------------------------------------
LEMMA RecordsInit ==
  ASSUME PartsInit PROVE IgInv /\ EgInv
BY IgInitHolds, EgInitHolds DEF PartsInit

LEMMA RecordsStep ==
  ASSUME IgInv, EgInv, [PartsNext]_allVars
  PROVE  IgInv' /\ EgInv'
<1>1. CASE IngressStep
  BY <1>1, IgNextKeeps, EgStays DEF IngressStep, egressVars
<1>2. CASE EgressStep
  BY <1>2, EgNextKeeps, IgStays DEF EgressStep, ingressVars
<1>3. CASE /\ UNCHANGED <<igLimits, igInfo, igKey, igIndex, igState, igCall>>
           /\ UNCHANGED <<igSession, igSent, igTold, igExcused, igPanicked, igUsed>>
           /\ UNCHANGED <<egLimits, egInfo, egListed, egEnded, egOld, egCall, egServer>>
           /\ UNCHANGED <<egSent, egStarted, egAnswer, egExcused>>
  BY <1>3, IgStays, EgStays
<1>4. UNCHANGED ingressVars /\ UNCHANGED egressVars =>
        /\ UNCHANGED <<igLimits, igInfo, igKey, igIndex, igState, igCall>>
        /\ UNCHANGED <<igSession, igSent, igTold, igExcused, igPanicked, igUsed>>
        /\ UNCHANGED <<egLimits, egInfo, egListed, egEnded, egOld, egCall, egServer>>
        /\ UNCHANGED <<egSent, egStarted, egAnswer, egExcused>>
  BY DEF ingressVars, egressVars
<1>5. \/ IngressStep \/ EgressStep
      \/ UNCHANGED ingressVars /\ UNCHANGED egressVars
  <2>1. CASE PublishingStep
    BY <2>1 DEF PublishingStep
  <2>2. CASE DataStep \/ DataTrackStep
    BY <2>2 DEF DataStep, DataTrackStep
  <2>3. CASE AgentStep \/ DownTrackStep
    BY <2>3 DEF AgentStep, DownTrackStep
  <2>4. CASE UNCHANGED allVars
    BY <2>4 DEF allVars
  <2> QED BY <2>1, <2>2, <2>3, <2>4 DEF PartsNext
<1> QED BY <1>1, <1>2, <1>3, <1>4, <1>5

(* However calls on several nodes and failures of Redis fall together, a    *)
(* stored ingress is found by all its keys and by none of another room, its *)
(* state and what telemetry was told are those of the last report of the    *)
(* latest session, an ended egress is swept, and its status is the newest.  *)
THEOREM RecordsAgreeHolds == PartsSpec => []RecordsAgree
<1>1. PartsInit => IgInv /\ EgInv
  BY RecordsInit
<1>2. (IgInv /\ EgInv) /\ [PartsNext]_allVars => (IgInv /\ EgInv)'
  BY RecordsStep
<1>3. IgInv /\ EgInv => RecordsAgree
  BY IgInvShows, EgInvShows DEF RecordsAgree
<1> QED BY <1>1, <1>2, <1>3, PTL DEF PartsSpec
=============================================================================
