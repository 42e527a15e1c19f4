--------------------------- MODULE ServicesProofs ---------------------------
(***************************************************************************)
(* The services that share no state with each other.  The console: its two *)
(* properties for every set of inputs, whatever commands with whatever     *)
(* numbers are typed, cut and joined across the ports.  The work queue:    *)
(* its safety for every number of works and clients and, but where a       *)
(* theorem says otherwise, for any priorities.  The serial driver by DMA:  *)
(* what is sent goes out in turn and what is received is read in order,    *)
(* for every size of the queue and of the buffer.                          *)
(***************************************************************************)
EXTENDS Services, PipeProofs, DataQueueProofs,
        SequenceTheorems, TLAPS

(* The inductive invariant: the configuration is usable, the buffer holds one
   of the things the ports can deliver, and while it holds a line to be
   answered the configuration is still that of the beginning of the round. *)
ConsoleInv == /\ ConsoleTypeOK
              /\ Usable(modu)
              /\ buf.ended => before = modu

(* The numbers a configuration may hold are integers. *)
LEMMA Ranges == IpBytes \subseteq Int /\ PortNumbers \subseteq Int /\ Baudrates \subseteq Int
BY DEF IpBytes, PortNumbers, Baudrates

(* A cleared buffer holds no ended line. *)
LEMMA EmptyBuffer == NoInput \in Delivery /\ ~NoInput.ended
BY DEF NoInput, Delivery

(* What reset_config stores is usable. *)
LEMMA DefaultUsable == DefaultModu \in Config /\ Usable(DefaultModu)
BY DEF DefaultModu, Config, Usable, IpBytes, PortNumbers, Baudrates

(* The console begins with a usable configuration. *)
LEMMA ConsoleInvInit == ConsoleInit => ConsoleInv
<1>1. ConsoleInit => ConsoleTypeOK
  BY EmptyBuffer, DefaultUsable DEF ConsoleInit, ConsoleTypeOK, Answers
<1>. QED
  BY <1>1, EmptyBuffer, DefaultUsable DEF ConsoleInit, ConsoleInv

(* What the second port adds makes one delivery of two. *)
LEMMA JoinedType ==
  ASSUME NEW a \in Delivery, NEW b \in Delivery
  PROVE  Joined(a, b) \in Delivery
BY DEF Joined, Delivery

(* A configuration from its fields. *)
Conf(ip, port, send, baud, stop, par, wdt, msgs) ==
  [ip |-> ip, port |-> port, sendMode |-> send, baudrate |-> baud,
   stopbit |-> stop, parity |-> par, watchdog |-> wdt, msgSave |-> msgs]

(* Fields in their ranges make a configuration. *)
LEMMA ConfIsConfig ==
  ASSUME NEW ip \in IpBytes, NEW port \in PortNumbers, NEW send \in {0, 1},
         NEW baud \in Baudrates, NEW stop \in {1, 2},
         NEW par \in {0, 1, 2}, NEW wdt \in {0, 1}, NEW msgs \in 1 .. 5
  PROVE  LET c == Conf(ip, port, send, baud, stop, par, wdt, msgs)
         IN  c \in Config /\ Usable(c)
<1> DEFINE c == Conf(ip, port, send, baud, stop, par, wdt, msgs)
<1>1. c \in Config
  BY Ranges DEF Conf, Config
<1>2. /\ c.ip = ip /\ c.port = port /\ c.sendMode = send /\ c.baudrate = baud
      /\ c.stopbit = stop /\ c.parity = par /\ c.watchdog = wdt /\ c.msgSave = msgs
  BY DEF Conf
<1> HIDE DEF c
<1>3. Usable(c)
  BY <1>2 DEF Usable
<1>. QED
  BY <1>1, <1>3 DEF c

(* An accepted setting leaves a usable configuration usable: the range checks
   cover exactly what the boot needs. *)
LEMMA ChangedUsable ==
  ASSUME NEW c \in Config, Usable(c), NEW cmd \in Settings,
         NEW a \in Seq(Int), Accepted(cmd, a)
  PROVE  Changed(c, cmd, a) \in Config /\ Usable(Changed(c, cmd, a))
<1>0. /\ c.ip \in IpBytes /\ c.port \in PortNumbers /\ c.sendMode \in {0, 1}
      /\ c.baudrate \in Baudrates /\ c.stopbit \in {1, 2}
      /\ c.parity \in {0, 1, 2} /\ c.watchdog \in {0, 1} /\ c.msgSave \in 1 .. 5
  BY DEF Usable
<1>1. CASE cmd = "AT+RS232"
  <2> DEFINE u == SerialArgs(a).baudrate
             v == SerialArgs(a).stopbit
             w == SerialArgs(a).parity
  <2>1. checkConfigRS232(a)
    BY <1>1 DEF Accepted
  <2>2. u \in Baudrates /\ v \in {1, 2} /\ w \in {0, 1, 2}
    BY <2>1 DEF checkConfigRS232
  <2>3. Changed(c, cmd, a) = [c EXCEPT !.baudrate = u, !.stopbit = v, !.parity = w]
    BY <1>1 DEF Changed
  <2> HIDE DEF u, v, w
  <2>4. Changed(c, cmd, a) = Conf(c.ip, c.port, c.sendMode, u, v, w,
                                  c.watchdog, c.msgSave)
    BY <2>3 DEF Conf, Config
  <2>. QED
    BY <1>0, <2>2, <2>4, ConfIsConfig
<1>2. CASE cmd = "AT+IPPORT"
  <2>1. checkConfigIPORT(a)
    BY <1>2 DEF Accepted
  <2>2. a[1] \in IpBytes /\ a[2] \in PortNumbers
    BY <2>1 DEF checkConfigIPORT
  <2>3. Changed(c, cmd, a) = [c EXCEPT !.ip = a[1], !.port = a[2]]
    BY <1>2 DEF Changed
  <2>4. Changed(c, cmd, a) = Conf(a[1], a[2], c.sendMode, c.baudrate, c.stopbit,
                                  c.parity, c.watchdog, c.msgSave)
    BY <2>3 DEF Conf, Config
  <2>. QED
    BY <1>0, <2>2, <2>4, ConfIsConfig
<1>3. CASE cmd = "AT+MSGS"
  <2>1. InRange(cmd, a[1]) /\ Len(a) >= 1
    BY <1>3 DEF Accepted
  <2>2. a[1] \in 1 .. 5
    BY <1>3, <2>1 DEF InRange
  <2>3. Changed(c, cmd, a) = [c EXCEPT !.msgSave = a[1]]
    BY <1>3 DEF Changed
  <2>4. Changed(c, cmd, a) = Conf(c.ip, c.port, c.sendMode, c.baudrate, c.stopbit,
                                  c.parity, c.watchdog, a[1])
    BY <2>3 DEF Conf, Config
  <2>. QED
    BY <1>0, <2>2, <2>4, ConfIsConfig
<1>4. CASE cmd = "AT+SEMO"
  <2>1. InRange(cmd, a[1]) /\ Len(a) >= 1
    BY <1>4 DEF Accepted
  <2>2. a[1] \in {0, 1}
    BY <1>4, <2>1 DEF InRange
  <2>3. Changed(c, cmd, a) = [c EXCEPT !.sendMode = a[1]]
    BY <1>4 DEF Changed
  <2>4. Changed(c, cmd, a) = Conf(c.ip, c.port, a[1], c.baudrate, c.stopbit,
                                  c.parity, c.watchdog, c.msgSave)
    BY <2>3 DEF Conf, Config
  <2>. QED
    BY <1>0, <2>2, <2>4, ConfIsConfig
<1>5. CASE cmd = "AT+WDT"
  <2>1. InRange(cmd, a[1]) /\ Len(a) >= 1
    BY <1>5 DEF Accepted
  <2>2. a[1] \in {0, 1}
    BY <1>5, <2>1 DEF InRange
  <2>3. Changed(c, cmd, a) = [c EXCEPT !.watchdog = a[1]]
    BY <1>5 DEF Changed
  <2>4. Changed(c, cmd, a) = Conf(c.ip, c.port, c.sendMode, c.baudrate, c.stopbit,
                                  c.parity, a[1], c.msgSave)
    BY <2>3 DEF Conf, Config
  <2>. QED
    BY <1>0, <2>2, <2>4, ConfIsConfig
<1>. QED
  BY <1>1, <1>2, <1>3, <1>4, <1>5 DEF Settings

(* The one step that takes a configuration from the user. *)
LEMMA StoreStep ==
  ASSUME ConsoleInv, NEW cmd \in Settings, Store(cmd)
  PROVE  /\ modu' \in Config /\ Usable(modu')
         /\ buf' = NoInput /\ before' = before
         /\ \/ answer' = "ERROR" /\ modu' = modu
            \/ /\ answer' = "OK" /\ buf.cmd = cmd /\ buf.form = "set"
               /\ modu' = Changed(before, buf.cmd, buf.args)
<1>1. buf.args \in Seq(Int) /\ buf.cmd = cmd /\ buf.form = "set" /\ before = modu
  BY DEF Store, Calls, ConsoleInv, ConsoleTypeOK, Delivery
<1>2. CASE Accepted(cmd, buf.args)
  BY <1>1, <1>2, ChangedUsable DEF Store, Answer, ConsoleInv, ConsoleTypeOK
<1>3. CASE ~Accepted(cmd, buf.args)
  BY <1>1, <1>3 DEF Store, Answer, ConsoleInv, ConsoleTypeOK
<1>. QED
  BY <1>2, <1>3

(* Every other handler but AT+DELO's leaves the configuration alone. *)
Keeps == /\ UNCHANGED <<modu, before>> /\ buf' = NoInput /\ answer' \in Answers

(* A step reads input, leaves the configuration alone, or is one of the two
   that change it. *)
LEMMA HandlerStep ==
  ASSUME ConsoleNext
  PROVE  \/ \E a, b \in Delivery : ConsoleRead(a, b)
         \/ Keeps
         \/ \E cmd \in Settings : Store(cmd)
         \/ ATDELO_cmd
<1>1. ASSUME NEW a \in Inputs \cup {NoInput}, NEW b \in MayFollow(a), ConsoleRead(a, b)
      PROVE  \E x, y \in Delivery : ConsoleRead(x, y)
  <2>1. a \in Delivery /\ b \in Delivery
    BY InputsAssumption, EmptyBuffer DEF MayFollow
  <2>. QED
    BY <1>1, <2>1
<1>2. CASE NoEndOfLine \/ UndefinedCmd \/ ATSAVE_cmd
  BY <1>2 DEF NoEndOfLine, UndefinedCmd, ATSAVE_cmd, Answer, Keeps, Answers
<1>3. CASE ATVER_cmd \/ ATIMEIBD_cmd
  BY <1>3 DEF ATVER_cmd, ATIMEIBD_cmd, Value, Refuse, Answer, Keeps, Answers
<1>4. ASSUME NEW cmd \in ToModem, AskModem(cmd)
      PROVE  Keeps
  BY <1>4 DEF AskModem, Refuse, Answer, Keeps, Answers
<1>5. ASSUME NEW cmd \in Settings, Setting(cmd)
      PROVE  Keeps \/ Store(cmd)
  BY <1>5 DEF Setting, Value, Refuse, Answer, Keeps, Answers
<1>6. CASE ATRS232_cmd \/ ATIPPORT_cmd \/ ATMSGS_cmd \/ ATSEMO_cmd \/ ATWDT_cmd
  BY <1>5, <1>6 DEF ATRS232_cmd, ATIPPORT_cmd, ATMSGS_cmd, ATSEMO_cmd, ATWDT_cmd,
                    Settings
<1>. QED
  BY <1>1, <1>2, <1>3, <1>4, <1>6 DEF ConsoleNext

(* So does every step of the console. *)
LEMMA ConsoleInvStep == ConsoleInv /\ [ConsoleNext]_consoleVars => ConsoleInv'
<1> SUFFICES ASSUME ConsoleInv, [ConsoleNext]_consoleVars
             PROVE  ConsoleInv'
  OBVIOUS
<1>1. ASSUME NEW a \in Delivery, NEW b \in Delivery, ConsoleRead(a, b)
      PROVE  ConsoleInv'
  BY <1>1, JoinedType DEF ConsoleRead, ConsoleInv, ConsoleTypeOK, Answers
<1>2. CASE Keeps
  BY EmptyBuffer, <1>2 DEF Keeps, ConsoleInv, ConsoleTypeOK
<1>3. ASSUME NEW cmd \in Settings, Store(cmd)
      PROVE  ConsoleInv'
  BY EmptyBuffer, <1>3, StoreStep DEF ConsoleInv, ConsoleTypeOK, Answers
<1>4. CASE ATDELO_cmd
  BY EmptyBuffer, DefaultUsable, <1>4 DEF ATDELO_cmd, Answer, ConsoleInv, ConsoleTypeOK, Answers
<1>5. CASE UNCHANGED consoleVars
  BY <1>5 DEF consoleVars, ConsoleInv, ConsoleTypeOK, Usable
<1>. QED
  BY <1>1, <1>2, <1>3, <1>4, <1>5, HandlerStep

(* The configuration is usable at every point of ghConfig, and an ended line finds
   in "before" what it may change: what the two theorems below rest on. *)
THEOREM ConsoleInvHolds == ConsoleSpec => []ConsoleInv
BY ConsoleInvInit, ConsoleInvStep, PTL DEF ConsoleSpec

(* Whatever is typed, the next boot finds a configuration it can use
   (main.c:194-456, utils.c:34-98). *)
THEOREM ConfigIsAlwaysUsable == ConsoleSpec => []ConfigStaysUsable
<1>1. ConsoleInv => ConfigStaysUsable
  BY DEF ConsoleInv, ConfigStaysUsable
<1>. QED
  BY <1>1, ConsoleInvHolds, PTL

(* The configuration changes only in a round that asks for it and is answered
   accordingly. *)
THEOREM AnswersAreTrue == ConsoleSpec => AnswerTellsTheTruth
<1> DEFINE Told == \/ modu' = modu
                   \/ /\ answer' \in {"OK", "ERROR"} /\ buf.cmd = "AT+DELO"
                      /\ modu' = DefaultModu
                   \/ /\ answer' = "OK" /\ buf.form = "set"
                      /\ modu' = Changed(before, buf.cmd, buf.args)
                      /\ Usable(modu')
<1>1. ConsoleInv /\ [ConsoleNext]_consoleVars => [Told]_consoleVars
  <2> SUFFICES ASSUME ConsoleInv, ConsoleNext
               PROVE  Told
    OBVIOUS
  <2>1. ASSUME NEW cmd \in Settings, Store(cmd)
        PROVE  Told
    BY <2>1, StoreStep
  <2>2. CASE ATDELO_cmd
    BY <2>2 DEF ATDELO_cmd, Answer, Calls
  <2>3. CASE Keeps \/ \E a, b \in Delivery : ConsoleRead(a, b)
    BY <2>3 DEF Keeps, ConsoleRead
  <2>. QED
    BY <2>1, <2>2, <2>3, HandlerStep
<1>. QED
  BY <1>1, ConsoleInvHolds, PTL DEF ConsoleSpec, AnswerTellsTheTruth

-----------------------------------------------------------------------------
Distinct(s) == \A i, j \in 1 .. Len(s) : s[i] = s[j] => i = j
Has(s, w)   == \E i \in 1 .. Len(s) : s[i] = w

(* rt_list_remove takes a work off the list and leaves the others, each once. *)
LEMMA WithoutEffect ==
  ASSUME NEW s \in Seq(Works), NEW w \in Works, Distinct(s)
  PROVE  /\ Without(s, w) \in Seq(Works)
         /\ Distinct(Without(s, w))
         /\ ~Has(Without(s, w), w)
         /\ \A v : Has(Without(s, w), v) => Has(s, v)
<1>1. CASE ~Has(s, w)
  BY <1>1 DEF Without, Has
<1>2. CASE Has(s, w)
  <2> DEFINE i == CHOOSE i \in 1 .. Len(s) : s[i] = w
             t == [k \in 1 .. Len(s) - 1 |-> IF k < i THEN s[k] ELSE s[k + 1]]
  <2>1. i \in 1 .. Len(s) /\ s[i] = w
    BY <1>2 DEF Has
  <2>2. Len(s) \in Nat /\ \A k \in 1 .. Len(s) : s[k] \in Works
    OBVIOUS
  <2>3. Without(s, w) = t
    BY <1>2 DEF Without, Has
  <2> HIDE DEF i
  <2>4. t \in Seq(Works) /\ Len(t) = Len(s) - 1
    <3>1. Len(s) - 1 \in Nat
      BY <2>1, <2>2
    <3>2. t \in [1 .. Len(s) - 1 -> Works]
      BY <2>1, <2>2, <3>1
    <3>. QED
      BY <3>1, <3>2
  <2>5. \A k \in 1 .. Len(t) : \E m \in 1 .. Len(s) : m # i /\ t[k] = s[m]
    <3>1. SUFFICES ASSUME NEW k \in 1 .. Len(t)
                   PROVE  \E m \in 1 .. Len(s) : m # i /\ t[k] = s[m]
      OBVIOUS
    <3>2. CASE k < i
      BY <2>1, <2>2, <2>4, <3>2
    <3>3. CASE ~(k < i)
      <4>1. k + 1 \in 1 .. Len(s) /\ k + 1 # i /\ t[k] = s[k + 1]
        BY <2>1, <2>2, <2>4, <3>3
      <4>. QED
        BY <4>1
    <3>. QED
      BY <3>2, <3>3
  <2>6. Distinct(t)
    <3>1. SUFFICES ASSUME NEW j \in 1 .. Len(t), NEW k \in 1 .. Len(t), t[j] = t[k]
                   PROVE  j = k
      BY DEF Distinct
    <3> DEFINE at(n) == IF n < i THEN n ELSE n + 1
    <3>2. at(j) \in 1 .. Len(s) /\ at(k) \in 1 .. Len(s)
      BY <2>1, <2>2, <2>4
    <3>3. t[j] = s[at(j)] /\ t[k] = s[at(k)]
      BY <2>4
    <3>4. at(j) = at(k)
      BY <3>1, <3>2, <3>3 DEF Distinct
    <3>. QED
      BY <2>1, <3>4
  <2>7. ~Has(t, w)
    BY <2>1, <2>5 DEF Has, Distinct
  <2>8. \A v : Has(t, v) => Has(s, v)
    BY <2>5 DEF Has
  <2>. QED
    BY <2>3, <2>4, <2>6, <2>7, <2>8
<1>. QED
  BY <1>1, <1>2

(* rt_list_insert_after at the end of the list: the work is its last one. *)
LEMMA AppendEffect ==
  ASSUME NEW s \in Seq(Works), NEW w \in Works, Distinct(s), ~Has(s, w)
  PROVE  /\ Append(s, w) \in Seq(Works) /\ Append(s, w) # <<>>
         /\ Distinct(Append(s, w))
         /\ \A v : Has(Append(s, w), v) => v = w \/ Has(s, v)
<1> DEFINE t == Append(s, w)
<1>1. /\ Len(s) \in Nat /\ t \in Seq(Works) /\ Len(t) = Len(s) + 1
      /\ \A i \in 1 .. Len(s) : t[i] = s[i]
      /\ t[Len(s) + 1] = w
  OBVIOUS
<1> HIDE DEF t
<1>2. t # <<>>
  BY <1>1
<1>3. Distinct(t)
  BY <1>1 DEF Distinct, Has
<1>4. \A v : Has(t, v) => v = w \/ Has(s, v)
  BY <1>1 DEF Has
<1>. QED
  BY <1>1, <1>2, <1>3, <1>4 DEF t

(* Taking the first work leaves the others, each once, and not that one. *)
LEMMA TailEffect ==
  ASSUME NEW s \in Seq(Works), s # <<>>, Distinct(s)
  PROVE  /\ Head(s) \in Works /\ Tail(s) \in Seq(Works)
         /\ Distinct(Tail(s)) /\ ~Has(Tail(s), Head(s))
<1> DEFINE t == Tail(s)
<1>1. /\ Len(s) \in Nat /\ Len(s) > 0 /\ Head(s) = s[1] /\ Head(s) \in Works
      /\ t \in Seq(Works) /\ Len(t) = Len(s) - 1
      /\ \A i \in 1 .. Len(t) : t[i] = s[i + 1]
  BY HeadTailProperties
<1> HIDE DEF t
<1>2. Distinct(t)
  BY <1>1 DEF Distinct
<1>3. ~Has(t, Head(s))
  BY <1>1 DEF Distinct, Has
<1>. QED
  BY <1>1, <1>2, <1>3 DEF t

-----------------------------------------------------------------------------
(* The inductive invariant.  A work is taken off the list when it becomes the
   running one, and a work that runs is refused by rt_workqueue_dowork: this
   needs that work_current names a work exactly while one runs. *)
RunsIffCurrent == current # NoWork <=> wpc = "run"

WorkInv == WorkTypeOK /\ WorkInOnePlace /\ RunsIffCurrent

(* A created work queue has no works. *)
LEMMA WorkInvInit == WorkInit => WorkInv
BY WorkAssumption DEF WorkInit, WorkInv, WorkTypeOK, WorkInOnePlace, Queued,
                      RunsIffCurrent

(* What the client operations do to the list. *)
LEMMA ListStep ==
  ASSUME WorkInv, NEW w \in Works, current # w
  PROVE  /\ Without(works, w) \in Seq(Works)
         /\ Distinct(Without(works, w)) /\ ~Has(Without(works, w), current)
         /\ Append(Without(works, w), w) \in Seq(Works)
         /\ Append(Without(works, w), w) # <<>>
         /\ Distinct(Append(Without(works, w), w))
         /\ ~Has(Append(Without(works, w), w), current)
<1>1. works \in Seq(Works) /\ Distinct(works) /\ ~Has(works, current)
  BY DEF WorkInv, WorkTypeOK, WorkInOnePlace, Queued, Distinct, Has
<1>2. /\ Without(works, w) \in Seq(Works) /\ Distinct(Without(works, w))
      /\ ~Has(Without(works, w), w) /\ ~Has(Without(works, w), current)
  BY <1>1, WithoutEffect
<1>. QED
  BY <1>2, AppendEffect

(* Every operation of workqueue.c and every step of its thread keeps it. *)
LEMMA WorkInvStep == WorkInv /\ [WorkNext]_workVars => WorkInv'
<1> SUFFICES ASSUME WorkInv, [WorkNext]_workVars
             PROVE  WorkInv'
  OBVIOUS
<1>1. /\ works \in Seq(Works) /\ Distinct(works) /\ ~Has(works, current)
      /\ NoWork \notin Works
  BY WorkAssumption DEF WorkInv, WorkTypeOK, WorkInOnePlace, Queued, Distinct, Has
<1>2. SUFFICES /\ WorkTypeOK'
               /\ Distinct(works') /\ ~Has(works', current')
               /\ RunsIffCurrent'
  BY DEF WorkInv, WorkInOnePlace, Queued, Distinct, Has
<1> USE DEF WorkInv, WorkTypeOK, RunsIffCurrent
<1>3. CASE WorkerStep
  <2>1. CASE Check
    BY <1>1, <2>1 DEF Check
  <2>2. CASE SuspendSelf
    BY <1>1, <2>2 DEF SuspendSelf
  <2>3. CASE TakeWork
    <3>1. CASE works = <<>>
      BY <1>1, <2>3, <3>1 DEF TakeWork
    <3>2. CASE works # <<>>
      BY <1>1, <2>3, <3>2, TailEffect DEF TakeWork
    <3>. QED
      BY <3>1, <3>2
  <2>4. CASE EndWork
    <3>1. \A i \in 1 .. Len(works) : works[i] \in Works
      BY <1>1
    <3>. QED
      BY <1>1, <2>4, <3>1 DEF EndWork, Has
  <2>5. CASE AckCompletion
    BY <1>1, <2>5 DEF AckCompletion, Released
  <2>. QED
    BY <1>3, <2>1, <2>2, <2>3, <2>4, <2>5 DEF WorkerStep
<1>4. ASSUME NEW c \in Clients, Resume(c)
      PROVE  /\ WorkTypeOK' /\ RunsIffCurrent'
             /\ Distinct(works') /\ ~Has(works', current')
  BY <1>1, <1>4 DEF Resume
<1>5. ASSUME NEW c \in Clients, CancelAllWork(c)
      PROVE  /\ WorkTypeOK' /\ RunsIffCurrent'
             /\ Distinct(works') /\ ~Has(works', current')
  BY <1>1, <1>5 DEF CancelAllWork, Distinct, Has
<1>6. ASSUME NEW c \in Clients, NEW w \in Works, DoWork(c, w)
      PROVE  /\ WorkTypeOK' /\ RunsIffCurrent'
             /\ Distinct(works') /\ ~Has(works', current')
  BY <1>1, <1>6, ListStep DEF DoWork
<1>7. ASSUME NEW c \in Clients, NEW w \in Works, CancelWork(c, w)
      PROVE  /\ WorkTypeOK' /\ RunsIffCurrent'
             /\ Distinct(works') /\ ~Has(works', current')
  BY <1>1, <1>7, ListStep DEF CancelWork
<1>8. ASSUME NEW c \in Clients, NEW w \in Works, CancelWorkSync(c, w)
      PROVE  /\ WorkTypeOK' /\ RunsIffCurrent'
             /\ Distinct(works') /\ ~Has(works', current')
  <2>1. CASE current = w
    BY <1>1, <1>8, <2>1 DEF CancelWorkSync
  <2>2. CASE current # w
    BY <1>1, <1>8, <2>2, ListStep DEF CancelWorkSync
  <2>. QED
    BY <2>1, <2>2
<1>9. CASE UNCHANGED workVars
  BY <1>1, <1>9 DEF workVars, Distinct, Has
<1>. QED
  BY <1>3, <1>4, <1>5, <1>6, <1>7, <1>8, <1>9 DEF WorkNext, CriticalWork

(* The types, one place for each work, and a current work exactly while one
   runs: what the properties below rest on. *)
THEOREM WorkInvHolds == WorkSpec => []WorkInv
BY WorkInvInit, WorkInvStep, PTL DEF WorkSpec

(* Whatever the clients do, a work is on the list at most once and never
   while it runs: no list node of workqueue.c:148 is linked in twice. *)
THEOREM WorkIsInOnePlace == WorkSpec => []WorkInOnePlace
<1>1. WorkInv => WorkInOnePlace
  BY DEF WorkInv
<1>. QED
  BY <1>1, WorkInvHolds, PTL

(* A synchronous cancellation (workqueue.c:224) returns only when no work
   runs. *)
THEOREM SyncCancellationWaits == WorkSpec => CancelSyncWaits
<1>1. WorkInv /\ [WorkNext]_workVars =>
        [\A c \in Clients : cpc[c] = "semwait" /\ cpc'[c] # "semwait"
                               => current = NoWork]_workVars
  <2> SUFFICES ASSUME WorkInv, WorkNext, NEW c \in Clients,
                      cpc[c] = "semwait", cpc'[c] # "semwait"
               PROVE  current = NoWork
    OBVIOUS
  <2>1. CASE AckCompletion
    BY <2>1 DEF AckCompletion, WorkInv, RunsIffCurrent
  <2>2. CASE Check \/ SuspendSelf \/ TakeWork \/ EndWork
    BY <2>2 DEF Check, SuspendSelf, TakeWork, EndWork
  <2>3. ASSUME NEW d \in Clients, Resume(d) \/ CancelAllWork(d)
        PROVE  FALSE
    BY <2>3 DEF Resume, CancelAllWork, WorkInv, WorkTypeOK
  <2>4. ASSUME NEW d \in Clients, NEW w \in Works,
               DoWork(d, w) \/ CancelWork(d, w) \/ CancelWorkSync(d, w)
        PROVE  FALSE
    BY <2>4 DEF DoWork, CancelWork, CancelWorkSync, WorkInv, WorkTypeOK
  <2>. QED
    BY <2>1, <2>2, <2>3, <2>4 DEF WorkNext, WorkerStep, CriticalWork
<1>. QED
  BY <1>1, WorkInvHolds, PTL DEF WorkSpec, CancelSyncWaits

-----------------------------------------------------------------------------
(* A client that no other one outranks or equals finds the list as it left it
   between its insertion and its rt_thread_resume (workqueue.c:148, 156), and
   a worker that outranks it asleep: nobody else can run. *)
Foremost(c) == \A d \in Clients \ {c} : WorkPrio[c] < WorkPrio[d]

ForemostFindsItsWork ==
  \A c \in Clients :
    Foremost(c) /\ cpc[c] = "resume" =>
      /\ works # <<>>
      /\ WorkPrio[Worker] <= WorkPrio[c] => wpc = "asleep"

(* No step takes the work away from the client that is about to resume. *)
LEMMA ForemostStep ==
  WorkInv /\ ForemostFindsItsWork /\ [WorkNext]_workVars => ForemostFindsItsWork'
<1> SUFFICES ASSUME WorkInv, ForemostFindsItsWork, [WorkNext]_workVars,
                    NEW c \in Clients, Foremost(c), cpc'[c] = "resume"
             PROVE  /\ works' # <<>>
                    /\ WorkPrio[Worker] <= WorkPrio[c] => wpc' = "asleep"
  BY DEF ForemostFindsItsWork, Foremost
<1>0. /\ \A d \in Clients : WorkPrio[d] \in Nat
      /\ WorkPrio[Worker] \in Nat
      /\ \A d \in Clients : cpc[d] = "resume" => cpc[d] \notin {"idle", "semwait"}
  BY WorkAssumption
<1>1. cpc[c] = "resume" =>
        /\ works # <<>>
        /\ WorkPrio[Worker] <= WorkPrio[c] => wpc = "asleep"
  BY DEF ForemostFindsItsWork
<1>2. ASSUME cpc[c] = "resume", NEW d \in Clients, ClientTurn(d)
      PROVE  d = c
  BY <1>0, <1>2 DEF ClientTurn, Foremost
<1>3. ASSUME cpc[c] = "resume", WorkerTurn
      PROVE  wpc = "asleep"
  BY <1>0, <1>1, <1>3 DEF WorkerTurn
<1>4. CASE WorkerStep
  <2>1. cpc[c] = "resume"
    BY <1>4 DEF WorkerStep, Check, SuspendSelf, TakeWork, EndWork, AckCompletion,
                Released, WorkInv, WorkTypeOK
  <2>2. wpc = "asleep"
    BY <1>3, <1>4, <2>1 DEF WorkerStep, Check, SuspendSelf, TakeWork, EndWork,
                            AckCompletion
  <2>. QED
    BY <1>4, <2>2 DEF WorkerStep, Check, SuspendSelf, TakeWork, EndWork, AckCompletion
<1>5. ASSUME NEW d \in Clients, Resume(d) \/ CancelAllWork(d)
      PROVE  FALSE
  <2>1. ClientTurn(d) /\ cpc[c] = "resume"
    BY <1>5 DEF Resume, CancelAllWork, WorkInv, WorkTypeOK
  <2>. QED
    BY <1>2, <1>5, <2>1 DEF Resume, CancelAllWork, WorkInv, WorkTypeOK
<1>6. ASSUME NEW d \in Clients, NEW w \in Works,
             CancelWork(d, w) \/ CancelWorkSync(d, w)
      PROVE  FALSE
  <2>1. ClientTurn(d) /\ cpc[c] = "resume"
    BY <1>6 DEF CancelWork, CancelWorkSync, WorkInv, WorkTypeOK
  <2>. QED
    BY <1>2, <1>6, <2>1 DEF CancelWork, CancelWorkSync, WorkInv, WorkTypeOK
<1>7. ASSUME NEW d \in Clients, NEW w \in Works, DoWork(d, w)
      PROVE  /\ works' # <<>>
             /\ WorkPrio[Worker] <= WorkPrio[c] => wpc' = "asleep"
  <2>1. d = c
    <3>1. CASE cpc[c] = "resume"
      BY <1>2, <1>7, <3>1 DEF DoWork
    <3>2. CASE cpc[c] # "resume"
      BY <1>7, <3>2 DEF DoWork, WorkInv, WorkTypeOK
    <3>. QED
      BY <3>1, <3>2
  <2>2. works' # <<>>
    BY <1>7, ListStep DEF DoWork
  <2>3. current = NoWork
    BY <1>7, <2>1 DEF DoWork, WorkInv, WorkTypeOK
  <2>4. WorkPrio[Worker] <= WorkPrio[c] => wpc = "asleep"
    BY <1>7, <2>1, <2>3 DEF DoWork, ClientTurn, WorkInv, RunsIffCurrent
  <2>. QED
    BY <1>7, <2>2, <2>4 DEF DoWork
<1>8. CASE UNCHANGED workVars
  BY <1>1, <1>8 DEF workVars
<1>. QED
  BY <1>4, <1>5, <1>6, <1>7, <1>8 DEF WorkNext, CriticalWork

(* The worker is woken for nothing - and then takes a work from an empty list
   (workqueue.c:79) - only by a client that a more urgent one overtook. *)
THEOREM WokenForNothingOnlyLate ==
  ASSUME \A c, d \in Clients : c # d => WorkPrio[c] # WorkPrio[d]
  PROVE  WorkSpec => []FindsWorkUnlessResumedLate
<1>1. WorkInit => ForemostFindsItsWork
  BY DEF WorkInit, ForemostFindsItsWork
<1>2. ForemostFindsItsWork => FindsWorkUnlessResumedLate
  <2> SUFFICES ASSUME ForemostFindsItsWork, NEW c \in Clients,
                      cpc[c] = "resume", works = <<>>,
                      \A d \in Clients : ~(WorkPrio[d] < WorkPrio[c])
               PROVE  FALSE
    BY DEF FindsWorkUnlessResumedLate
  <2>1. Foremost(c)
    BY WorkAssumption DEF Foremost
  <2>. QED
    BY <2>1 DEF ForemostFindsItsWork
<1>. QED
  BY <1>1, <1>2, ForemostStep, WorkInvHolds, PTL DEF WorkSpec

-----------------------------------------------------------------------------
(* With the worker at least as urgent as its clients, its look at the list
   and its suspension (workqueue.c:70) are not interrupted. *)
SleepsOnEmptyList ==
  /\ wpc = "suspend" => works = <<>>
  /\ WorkNeverForgotten

(* With the worker at least as urgent as its clients: when it sleeps, a work
   on the list has a client that is about to resume it. *)
THEOREM NoWorkIsForgotten ==
  ASSUME \A c \in Clients : WorkPrio[Worker] <= WorkPrio[c]
  PROVE  WorkSpec => []WorkNeverForgotten
<1>1. WorkInit => SleepsOnEmptyList
  BY DEF WorkInit, SleepsOnEmptyList, WorkNeverForgotten
<1>2. WorkInv /\ SleepsOnEmptyList /\ [WorkNext]_workVars => SleepsOnEmptyList'
  <2> SUFFICES ASSUME WorkInv, SleepsOnEmptyList, [WorkNext]_workVars
               PROVE  SleepsOnEmptyList'
    OBVIOUS
  <2> USE DEF SleepsOnEmptyList, WorkNeverForgotten
  <2>1. CASE Check \/ SuspendSelf \/ TakeWork \/ EndWork
    BY <2>1 DEF Check, SuspendSelf, TakeWork, EndWork
  <2>2. CASE AckCompletion
    BY <2>2 DEF AckCompletion
  <2>3. ASSUME NEW c \in Clients, ClientTurn(c)
        PROVE  wpc \in {"asleep", "run"}
    BY <2>3 DEF ClientTurn
  <2>4. ASSUME NEW c \in Clients, Resume(c)
        PROVE  SleepsOnEmptyList'
    BY <2>3, <2>4 DEF Resume
  <2>5. ASSUME NEW c \in Clients, CancelAllWork(c)
        PROVE  SleepsOnEmptyList'
    BY <2>3, <2>5 DEF CancelAllWork
  <2>6. ASSUME NEW c \in Clients, NEW w \in Works, DoWork(c, w)
        PROVE  SleepsOnEmptyList'
    <3>1. wpc' \in {"asleep", "run"} /\ wpc' = wpc
      BY <2>3, <2>6 DEF DoWork
    <3>2. CASE current = NoWork
      <4>1. cpc'[c] = "resume"
        BY <2>6, <3>2 DEF DoWork, WorkInv, WorkTypeOK
      <4>. QED
        BY <3>1, <4>1
    <3>3. CASE current # NoWork
      BY <3>1, <3>3 DEF WorkInv, RunsIffCurrent
    <3>. QED
      BY <3>2, <3>3
  <2>7. ASSUME NEW c \in Clients, NEW w \in Works,
               CancelWork(c, w) \/ CancelWorkSync(c, w)
        PROVE  SleepsOnEmptyList'
    <3>1. wpc' \in {"asleep", "run"} /\ wpc' = wpc
      BY <2>3, <2>7 DEF CancelWork, CancelWorkSync
    <3>2. works = <<>> => works' = <<>>
      BY <2>7 DEF CancelWork, CancelWorkSync, Without
    <3>3. wpc = "asleep" => current # w /\ UNCHANGED cpc
      BY <2>7, WorkAssumption DEF CancelWork, CancelWorkSync, WorkInv, RunsIffCurrent
    <3>. QED
      BY <3>1, <3>2, <3>3
  <2>8. CASE UNCHANGED workVars
    BY <2>8 DEF workVars
  <2>. QED
    BY <2>1, <2>2, <2>4, <2>5, <2>6, <2>7, <2>8 DEF WorkNext, WorkerStep, CriticalWork
<1>3. SleepsOnEmptyList => WorkNeverForgotten
  BY DEF SleepsOnEmptyList
<1>. QED
  BY <1>1, <1>2, <1>3, WorkInvHolds, PTL DEF WorkSpec

-----------------------------------------------------------------------------
(* Sending by DMA. *)

(* Those on the push list are suspended, each once. *)
PushersWait ==
  /\ \A i \in DOMAIN pushers : dpc[pushers[i]] = "blocked"
  /\ \A i, j \in DOMAIN pushers : pushers[i] = pushers[j] => i = j

(* A writer about to look at activated has a block to start. *)
HasBlock == \A d \in Writers : dpc[d] = "activate" => own[d] # NoItem

(* While nobody disturbs, the line sends the front of the queue; idle, it
   waits for the one writer whose block is the only one, or for nothing. *)
OneStartsTheLine ==
  ~disturbed =>
    /\ Occupancy(txq) <= QSize
    /\ activated => ~IsEmpty(txq) /\ line = Front(txq)
    /\ ~activated => \/ IsEmpty(txq) /\ Activating = {}
                     \/ \E d \in Writers : /\ Activating = {d} /\ own[d] = Front(txq)
                                           /\ Occupancy(txq) = 1

(* What the queue holds has been put there. *)
OnlyWritten == \A k \in 0 .. Occupancy(txq) - 1 : ItemAt(txq, k) # NoItem

DmaInv == /\ TxTypeOK /\ PushersWait /\ HasBlock /\ OnlyWritten
          /\ activated <=> line # NoItem
          /\ OneStartsTheLine

(* Blocks are numbers other than NoItem, and so is the next one. *)
LEMMA BlockNumbers ==
  /\ NoItem \notin TxBlock /\ LastBlock \in TxBlock
  /\ \A n \in TxBlock : 1 + (n % LastBlock) \in TxBlock
  BY DmaTxAssumption DEF TxBlock, NoItem

(* Without regard to what they hold, the operations keep a queue a queue. *)
LEMMA QueueTypes ==
  ASSUME NEW Item, NEW q \in Queue(Item), NEW x \in Item
  PROVE  Enqueue(q, x) \in Queue(Item) /\ Dequeue(q) \in Queue(Item)
<1>1. /\ Step(q.put) \in Index /\ Step(q.get) \in Index
      /\ q.put \in Index /\ q.get \in Index
      /\ q.slot \in [Slot -> Item \cup {NoItem}]
  BY StepType DEF Queue
<1>2. q.put % QSize \in Slot
  BY <1>1, SlotOfIndex, QueueAssumption DEF Index
<1> QED
  BY <1>1, <1>2 DEF Enqueue, Dequeue, Queue

(* Whoever is queued becomes the front of an empty queue, and leaves the
   front of another as it is. *)
LEMMA EnqueueFront ==
  ASSUME Aligned, NEW Item, NEW q \in Queue(Item), NEW x \in Item, Occupancy(q) < QSize
  PROVE  /\ Occupancy(Enqueue(q, x)) = Occupancy(q) + 1
         /\ ~IsEmpty(Enqueue(q, x))
         /\ Front(Enqueue(q, x)) = IF IsEmpty(q) THEN x ELSE Front(q)
<1> DEFINE e == Enqueue(q, x)
           n == Occupancy(q)
<1>1. /\ e \in Queue(Item) /\ Occupancy(e) = n + 1
      /\ \A k \in 0 .. n - 1 : ItemAt(e, k) = ItemAt(q, k)
      /\ ItemAt(e, n) = x
  BY EnqueueEffect
<1>2. n \in Nat /\ (IsEmpty(q) <=> n = 0)
  BY OccupancyType, QueueAssumption
<1> HIDE DEF e, n
<1>3. ~IsEmpty(e)
  BY <1>1, <1>2, OccupancyType
<1>4. Front(e) = ItemAt(e, 0)
  BY <1>1, <1>3, DequeueEffect
<1>5. ~IsEmpty(q) => Front(q) = ItemAt(q, 0)
  BY DequeueEffect
<1>6. n = 0 => Front(e) = x
  BY <1>1, <1>4
<1>7. n # 0 => Front(e) = Front(q)
  BY <1>1, <1>2, <1>4, <1>5
<1>8. /\ Occupancy(e) = n + 1 /\ ~IsEmpty(e)
      /\ Front(e) = IF IsEmpty(q) THEN x ELSE Front(q)
  BY <1>1, <1>2, <1>3, <1>6, <1>7
<1> QED
  BY <1>8 DEF e, n

(* However many are queued, every item of the longer queue is the new one or
   an old one. *)
LEMMA EnqueueWrites ==
  ASSUME NEW Item, NEW q \in Queue(Item), NEW x \in Item, Occupancy(q) < IndexMod - 1
  PROVE  /\ Occupancy(Enqueue(q, x)) = Occupancy(q) + 1
         /\ \A k \in 0 .. Occupancy(q) :
              \/ ItemAt(Enqueue(q, x), k) = x
              \/ k < Occupancy(q) /\ ItemAt(Enqueue(q, x), k) = ItemAt(q, k)
<1> DEFINE e == Enqueue(q, x)
           n == Occupancy(q)
<1>1. /\ QSize \in Nat /\ QSize > 0 /\ IndexMod \in Nat /\ IndexMod > QSize
      /\ q.get \in 0 .. IndexMod - 1 /\ q.put \in 0 .. IndexMod - 1
      /\ q.slot \in [Slot -> Item \cup {NoItem}]
  BY QueueAssumption DEF Queue, Index
<1>2. e.get = q.get /\ e.put = Step(q.put) /\ e.slot = [q.slot EXCEPT ![q.put % QSize] = x]
  BY <1>1 DEF Enqueue, Queue
<1>3. Step(q.put) = IF q.put + 1 < IndexMod THEN q.put + 1 ELSE 0
  BY <1>1, StepType DEF Index
<1>4. Occupancy(e) = n + 1 /\ n \in Nat
  BY <1>1, <1>2, <1>3 DEF Occupancy
<1>5. ASSUME NEW k \in 0 .. n
      PROVE  \/ ItemAt(e, k) = x
             \/ k < n /\ ItemAt(e, k) = ItemAt(q, k)
  <2>1. Ahead(e, k) = Ahead(q, k) /\ Ahead(q, k) \in Nat
    BY <1>1, <1>2, <1>4 DEF Ahead, Occupancy
  <2>2. Ahead(q, k) % QSize \in Slot /\ q.put % QSize \in Slot
    BY <1>1, <2>1, SlotOfIndex
  <2>3. k = n => Ahead(q, k) = q.put
    BY <1>1 DEF Ahead, Occupancy
  <2>4. ItemAt(e, k) = IF Ahead(q, k) % QSize = q.put % QSize THEN x ELSE ItemAt(q, k)
    <3> DEFINE s == Ahead(q, k) % QSize
    <3>1. ItemAt(e, k) = e.slot[s] /\ ItemAt(q, k) = q.slot[s]
      BY <2>1 DEF ItemAt
    <3> HIDE DEF s, e
    <3> QED
      BY <1>1, <1>2, <2>2, <3>1 DEF s
  <2>5. k < n \/ k = n
    BY <1>4
  <2> QED
    BY <2>3, <2>4, <2>5
<1> HIDE DEF e
<1>6. Occupancy(e) = n + 1 /\ \A k \in 0 .. n :
        ItemAt(e, k) = x \/ (k < n /\ ItemAt(e, k) = ItemAt(q, k))
  BY <1>4, <1>5
<1> QED
  BY <1>6 DEF e

(* rt_serial_open leaves the line idle, and nothing to send. *)
LEMMA DmaInit == TxInit => DmaInv
<1> SUFFICES ASSUME TxInit PROVE DmaInv
  OBVIOUS
<1>1. EmptyQueue \in Queue(TxBlock) /\ IsEmpty(EmptyQueue) /\ Occupancy(EmptyQueue) = 0
  BY QueueAssumption DEF EmptyQueue, Queue, Index, IsEmpty, Occupancy
<1>2. TxTypeOK
  <2>1. txq \in Queue(TxBlock) /\ pushers \in Seq(Writers) /\ newest \in TxBlock
        /\ line \in TxBlock \cup {NoItem} /\ own \in [Writers -> TxBlock \cup {NoItem}]
    BY <1>1, BlockNumbers DEF TxInit
  <2>2. activated \in BOOLEAN /\ disturbed \in BOOLEAN
    BY Zenon DEF TxInit
  <2>3. dpc \in [Writers -> {"idle", "blocked", "retry", "failed", "activate"}]
    BY DEF TxInit
  <2> QED
    BY <2>1, <2>2, <2>3 DEF TxTypeOK
<1>3. PushersWait /\ HasBlock /\ Activating = {}
  BY DEF TxInit, PushersWait, HasBlock, Activating
<1>4. OneStartsTheLine /\ OnlyWritten
  BY <1>1, <1>3, QueueAssumption DEF TxInit, OneStartsTheLine, OnlyWritten
<1> QED
  BY <1>2, <1>3, <1>4 DEF DmaInv, TxInit

(* What follows when only the pc of writers that start nothing changes. *)
LEMMA DmaPcStep ==
  ASSUME DmaInv, TxTypeOK', PushersWait', UNCHANGED <<txq, activated, line, own, disturbed>>,
         \A d \in Writers : (dpc'[d] = "activate") <=> (dpc[d] = "activate")
  PROVE  DmaInv'
<1>1. Activating' = Activating
  BY DEF Activating
<1>2. HasBlock'
  BY DEF HasBlock, DmaInv
<1>3. OneStartsTheLine' /\ OnlyWritten'
  BY <1>1 DEF DmaInv, OneStartsTheLine, OnlyWritten
<1> QED
  BY <1>2, <1>3 DEF DmaInv

(* A push that finds the queue full suspends its caller. *)
LEMMA DmaPushBlocks ==
  ASSUME DmaInv, NEW d \in Writers, DmaPush(d), IsFull(txq)
  PROVE  DmaInv'
<1>1. /\ dpc[d] \in {"idle", "retry"} /\ dpc' = [dpc EXCEPT ![d] = "blocked"]
      /\ pushers' = Append(pushers, d)
      /\ UNCHANGED <<txq, activated, line, own, newest, disturbed>>
  BY DEF DmaPush
<1>2. pushers \in Seq(Writers) /\ PushersWait
      /\ dpc \in [Writers -> {"idle", "blocked", "retry", "failed", "activate"}]
  BY DEF DmaInv, TxTypeOK
<1>3. /\ pushers' \in Seq(Writers) /\ Len(pushers') = Len(pushers) + 1
      /\ \A i \in 1 .. Len(pushers) : pushers'[i] = pushers[i]
      /\ pushers'[Len(pushers) + 1] = d
  BY <1>1, <1>2, AppendProperties
<1>4. \A i \in 1 .. Len(pushers) : pushers[i] \in Writers /\ pushers[i] # d
  BY <1>1, <1>2 DEF PushersWait
<1>5. TxTypeOK'
  BY <1>1, <1>2, <1>3 DEF DmaInv, TxTypeOK
<1>6. PushersWait'
  <2>1. Len(pushers) \in Nat /\ DOMAIN pushers' = 1 .. Len(pushers) + 1
        /\ DOMAIN pushers = 1 .. Len(pushers)
    BY <1>2, <1>3
  <2>2. \A i \in DOMAIN pushers' : i \in 1 .. Len(pushers) \/ i = Len(pushers) + 1
    BY <2>1
  <2>3. \A i \in DOMAIN pushers' : dpc'[pushers'[i]] = "blocked"
    BY <1>1, <1>2, <1>3, <1>4, <2>1, <2>2 DEF PushersWait
  <2>4. ASSUME NEW i \in DOMAIN pushers', NEW j \in DOMAIN pushers', pushers'[i] = pushers'[j]
        PROVE  i = j
    BY <1>2, <1>3, <1>4, <2>1, <2>2, <2>4 DEF PushersWait
  <2> QED
    BY <2>3, <2>4 DEF PushersWait
<1>7. \A u \in Writers : (dpc'[u] = "activate") <=> (dpc[u] = "activate")
  BY <1>1, <1>2
<1> QED
  BY <1>1, <1>5, <1>6, <1>7, DmaPcStep

(* A push that does not queues the block, and its caller has it to start. *)
LEMMA DmaPushQueues ==
  ASSUME DmaInv, Aligned, NEW d \in Writers, DmaPush(d), ~IsFull(txq)
  PROVE  DmaInv'
<1> DEFINE b == 1 + (newest % LastBlock)
<1>1. /\ dpc[d] \in {"idle", "retry"} /\ newest' = b /\ txq' = Enqueue(txq, b)
      /\ own' = [own EXCEPT ![d] = b] /\ dpc' = [dpc EXCEPT ![d] = "activate"]
      /\ disturbed' = \/ disturbed
                      \/ ~activated /\ Activating # {}
                      \/ Occupancy(txq) >= QSize
      /\ UNCHANGED <<pushers, activated, line>>
  BY Zenon DEF DmaPush
<1>2. b \in TxBlock /\ b # NoItem
  BY BlockNumbers DEF DmaInv, TxTypeOK
<1> HIDE DEF b
<1>3. /\ txq \in Queue(TxBlock) /\ own \in [Writers -> TxBlock \cup {NoItem}]
      /\ dpc \in [Writers -> {"idle", "blocked", "retry", "failed", "activate"}]
      /\ PushersWait /\ pushers \in Seq(Writers) /\ disturbed \in BOOLEAN
  BY DEF DmaInv, TxTypeOK
<1>4. TxTypeOK'
  <2>1. txq' \in Queue(TxBlock)
    BY <1>1, <1>2, <1>3, QueueTypes
  <2>2. disturbed' \in BOOLEAN
    BY <1>1, Zenon
  <2> QED
    BY <1>1, <1>2, <1>3, <2>1, <2>2 DEF DmaInv, TxTypeOK
<1>5. PushersWait'
  <2>1. \A i \in DOMAIN pushers : pushers[i] \in Writers /\ pushers[i] # d
    BY <1>1, <1>3 DEF PushersWait
  <2> QED
    BY <1>1, <1>3, <2>1 DEF PushersWait
<1>6. HasBlock'
  BY <1>1, <1>2, <1>3 DEF HasBlock, DmaInv
<1>7. OneStartsTheLine'
  <2> SUFFICES ASSUME ~disturbed'
               PROVE  /\ Occupancy(txq') <= QSize
                      /\ ~IsEmpty(txq')
                      /\ activated => line = Front(txq')
                      /\ ~activated => /\ Activating' = {d} /\ own'[d] = Front(txq')
                                       /\ Occupancy(txq') = 1
    BY <1>1 DEF OneStartsTheLine
  <2>1. ~disturbed /\ (activated \/ Activating = {}) /\ Occupancy(txq) < QSize
    <3>1. ~disturbed /\ (activated \/ Activating = {}) /\ ~(Occupancy(txq) >= QSize)
      BY <1>1, Zenon
    <3>2. Occupancy(txq) \in Int /\ QSize \in Int
      BY <1>3, OccupancyType, QueueAssumption
    <3> QED
      BY <3>1, <3>2
  <2>2. /\ Occupancy(txq') = Occupancy(txq) + 1 /\ ~IsEmpty(txq')
        /\ Front(txq') = IF IsEmpty(txq) THEN b ELSE Front(txq)
    BY <1>1, <1>2, <1>3, <2>1, EnqueueFront
  <2>3. Occupancy(txq) \in Nat /\ (IsEmpty(txq) <=> Occupancy(txq) = 0) /\ QSize \in Nat
    BY <1>3, OccupancyType, QueueAssumption
  <2>4. ASSUME activated
        PROVE  line = Front(txq')
    BY <2>1, <2>2, <2>4 DEF DmaInv, OneStartsTheLine
  <2>5. ASSUME ~activated
        PROVE  /\ Activating' = {d} /\ own'[d] = Front(txq') /\ Occupancy(txq') = 1
    <3>1. Activating = {} /\ IsEmpty(txq)
      BY <2>1, <2>5 DEF DmaInv, OneStartsTheLine
    <3>2. Activating' = {d}
      BY <1>1, <1>3, <3>1 DEF Activating
    <3> QED
      BY <1>1, <1>3, <2>2, <2>3, <3>1, <3>2
  <2> QED
    BY <2>1, <2>2, <2>3, <2>4, <2>5
<1>8. OnlyWritten'
  <2>1. Occupancy(txq) < IndexMod - 1
    <3>1. Occupancy(txq) < MaxQueued
      BY DEF DmaPush
    <3> QED
      BY <1>3, <3>1, OccupancyType, DmaTxAssumption, QueueAssumption
  <2>2. /\ Occupancy(txq') = Occupancy(txq) + 1
        /\ \A k \in 0 .. Occupancy(txq) :
             \/ ItemAt(txq', k) = b
             \/ k < Occupancy(txq) /\ ItemAt(txq', k) = ItemAt(txq, k)
    BY <1>1, <1>2, <1>3, <2>1, EnqueueWrites
  <2>3. Occupancy(txq) \in Nat
    BY <1>3, OccupancyType, QueueAssumption
  <2> QED
    BY <1>2, <2>2, <2>3 DEF OnlyWritten, DmaInv
<1> QED
  BY <1>1, <1>4, <1>5, <1>6, <1>7, <1>8 DEF DmaInv

(* The writer that has queued a block finds the line active or starts it. *)
LEMMA DmaActivateOK ==
  ASSUME DmaInv, NEW d \in Writers, DmaActivate(d)
  PROVE  DmaInv'
<1>1. /\ dpc[d] = "activate" /\ dpc' = [dpc EXCEPT ![d] = "idle"]
      /\ own' = [own EXCEPT ![d] = NoItem]
      /\ \/ activated /\ UNCHANGED <<activated, line>>
         \/ ~activated /\ activated' = TRUE /\ line' = own[d]
      /\ UNCHANGED <<txq, pushers, newest, disturbed>>
  BY DEF DmaActivate
<1>2. /\ own \in [Writers -> TxBlock \cup {NoItem}]
      /\ dpc \in [Writers -> {"idle", "blocked", "retry", "failed", "activate"}]
      /\ PushersWait /\ pushers \in Seq(Writers)
      /\ own[d] # NoItem /\ (activated <=> line # NoItem) /\ line \in TxBlock \cup {NoItem}
  BY <1>1 DEF DmaInv, TxTypeOK, HasBlock
<1>3. TxTypeOK'
  <2>1. activated' \in BOOLEAN
    BY <1>1, Zenon DEF DmaInv, TxTypeOK
  <2>2. line' \in TxBlock \cup {NoItem}
    BY <1>1, <1>2
  <2> QED
    BY <1>1, <1>2, <2>1, <2>2 DEF DmaInv, TxTypeOK
<1>4. PushersWait' /\ HasBlock'
  <2>1. \A i \in DOMAIN pushers : pushers[i] \in Writers /\ pushers[i] # d
    BY <1>1, <1>2 DEF PushersWait
  <2> QED
    BY <1>1, <1>2, <2>1 DEF PushersWait, HasBlock, DmaInv
<1>5. activated' /\ line' # NoItem
  BY <1>1, <1>2, Zenon
<1>6. OneStartsTheLine'
  <2> SUFFICES ASSUME ~disturbed
               PROVE  Occupancy(txq) <= QSize /\ ~IsEmpty(txq) /\ line' = Front(txq)
    BY <1>1, <1>5 DEF OneStartsTheLine
  <2>1. CASE activated
    BY <1>1, <2>1 DEF DmaInv, OneStartsTheLine
  <2>2. CASE ~activated
    <3>1. d \in Activating
      BY <1>1 DEF Activating
    <3>2. Occupancy(txq) <= QSize /\ Occupancy(txq) = 1 /\ own[d] = Front(txq)
      BY <2>2, <3>1 DEF DmaInv, OneStartsTheLine
    <3>3. ~IsEmpty(txq)
      BY <3>2, OccupancyType DEF DmaInv, TxTypeOK
    <3> QED
      BY <1>1, <2>2, <3>2, <3>3
  <2> QED
    BY <2>1, <2>2
<1>7. OnlyWritten'
  BY <1>1 DEF DmaInv, OnlyWritten
<1> QED
  BY <1>3, <1>4, <1>5, <1>6, <1>7 DEF DmaInv

(* A push ended by a reset, and the reset itself. *)
LEMMA DmaFailedOK ==
  ASSUME DmaInv, (\E d \in Writers : DmaPushFailed(d)) \/ DmaQueueReset
  PROVE  DmaInv'
<1>1. /\ PushersWait /\ pushers \in Seq(Writers)
      /\ dpc \in [Writers -> {"idle", "blocked", "retry", "failed", "activate"}]
  BY DEF DmaInv, TxTypeOK
<1>2. CASE \E d \in Writers : DmaPushFailed(d)
  <2>1. PICK d \in Writers : DmaPushFailed(d)
    BY <1>2
  <2>2. /\ dpc[d] = "failed" /\ dpc' = [dpc EXCEPT ![d] = "idle"]
        /\ UNCHANGED <<txq, pushers, activated, line, own, newest, disturbed>>
    BY <2>1 DEF DmaPushFailed
  <2>3. \A i \in DOMAIN pushers : pushers[i] \in Writers /\ pushers[i] # d
    BY <1>1, <2>2 DEF PushersWait
  <2>4. PushersWait'
    BY <1>1, <2>2, <2>3 DEF PushersWait
  <2>5. TxTypeOK'
    BY <1>1, <2>2 DEF DmaInv, TxTypeOK
  <2>6. \A u \in Writers : (dpc'[u] = "activate") <=> (dpc[u] = "activate")
    BY <1>1, <2>2
  <2> QED
    BY <2>2, <2>4, <2>5, <2>6, DmaPcStep
<1>3. CASE DmaQueueReset
  <2>1. /\ dpc' = [d \in Writers |-> IF dpc[d] = "blocked" THEN "failed" ELSE dpc[d]]
        /\ pushers' = <<>>
        /\ UNCHANGED <<txq, activated, line, own, newest, disturbed>>
    BY <1>3 DEF DmaQueueReset
  <2>2. TxTypeOK' /\ PushersWait'
    BY <1>1, <2>1 DEF DmaInv, TxTypeOK, PushersWait
  <2>3. \A u \in Writers : (dpc'[u] = "activate") <=> (dpc[u] = "activate")
    BY <1>1, <2>1
  <2> QED
    BY <2>1, <2>2, <2>3, DmaPcStep
<1> QED
  BY <1>2, <1>3

(* The interrupt wakes at most the first pusher, who starts nothing yet. *)
LEMMA DmaResumeOK ==
  ASSUME DmaInv, TxResume
  PROVE  /\ pushers' \in Seq(Writers) /\ PushersWait'
         /\ dpc' \in [Writers -> {"idle", "blocked", "retry", "failed", "activate"}]
         /\ \A d \in Writers : (dpc'[d] = "activate") <=> (dpc[d] = "activate")
<1>1. /\ PushersWait /\ pushers \in Seq(Writers)
      /\ dpc \in [Writers -> {"idle", "blocked", "retry", "failed", "activate"}]
  BY DEF DmaInv, TxTypeOK
<1>2. CASE ResumesPusher
  <2>1. /\ pushers # <<>> /\ pushers' = Tail(pushers)
        /\ dpc' = [dpc EXCEPT ![Head(pushers)] = "retry"]
    BY <1>2 DEF TxResume, ResumesPusher
  <2>2. /\ Head(pushers) = pushers[1] /\ 1 \in DOMAIN pushers /\ Head(pushers) \in Writers
        /\ pushers' \in Seq(Writers)
        /\ \A i \in DOMAIN pushers' : /\ i + 1 \in DOMAIN pushers /\ i + 1 # 1
                                      /\ pushers'[i] = pushers[i + 1]
    BY <1>1, <2>1
  <2>3. dpc[Head(pushers)] = "blocked"
    BY <1>1, <2>2 DEF PushersWait
  <2>4. \A i \in DOMAIN pushers' : pushers'[i] \in Writers /\ pushers'[i] # Head(pushers)
    BY <1>1, <2>2 DEF PushersWait
  <2>5. \A i \in DOMAIN pushers' : dpc'[pushers'[i]] = "blocked"
    BY <1>1, <2>1, <2>2, <2>4 DEF PushersWait
  <2>6. ASSUME NEW i \in DOMAIN pushers', NEW j \in DOMAIN pushers', pushers'[i] = pushers'[j]
        PROVE  i = j
    <3>1. i + 1 = j + 1
      BY <1>1, <2>2, <2>6 DEF PushersWait
    <3>2. i \in Int /\ j \in Int
      BY <2>2
    <3> QED
      BY <3>1, <3>2
  <2> QED
    BY <1>1, <2>1, <2>2, <2>3, <2>5, <2>6 DEF PushersWait
<1>3. CASE ~ResumesPusher
  BY <1>1, <1>3 DEF TxResume, PushersWait
<1> QED
  BY <1>2, <1>3

(* The interrupt of a finished block goes on with the next one. *)
LEMMA DmaDoneOK ==
  ASSUME DmaInv, Aligned, TxDmaDone
  PROVE  DmaInv'
<1>1. /\ txq' = Popped /\ TxResume /\ TxContinue(Popped) /\ UNCHANGED <<own, newest>>
      /\ disturbed' = IF IsEmpty(Popped) THEN Activating # {} ELSE disturbed
  BY DEF TxDmaDone
<1>2. /\ pushers' \in Seq(Writers) /\ PushersWait'
      /\ dpc' \in [Writers -> {"idle", "blocked", "retry", "failed", "activate"}]
      /\ \A d \in Writers : (dpc'[d] = "activate") <=> (dpc[d] = "activate")
  BY <1>1, DmaResumeOK
<1>3. Activating' = Activating
  BY <1>2 DEF Activating
<1>4. txq \in Queue(TxBlock) /\ Popped \in Queue(TxBlock)
  <2>1. txq \in Queue(TxBlock)
    BY DEF DmaInv, TxTypeOK
  <2>2. Dequeue(txq) \in Queue(TxBlock)
    BY <2>1, QueueTypes, BlockNumbers
  <2> QED
    BY <2>1, <2>2 DEF Popped
<1>5. HasBlock'
  BY <1>1, <1>2 DEF HasBlock, DmaInv
<1>6. CASE IsEmpty(Popped)
  <2>1. activated' = FALSE /\ line' = NoItem /\ disturbed' = (Activating # {})
    BY <1>1, <1>6 DEF TxContinue
  <2>2. disturbed' \in BOOLEAN /\ activated' \in BOOLEAN
    BY <2>1, Zenon
  <2>3. TxTypeOK'
    BY <1>1, <1>2, <1>4, <2>1, <2>2 DEF DmaInv, TxTypeOK
  <2>4. Occupancy(txq') = 0 /\ IsEmpty(txq')
    BY <1>1, <1>4, <1>6, OccupancyType
  <2>5. OneStartsTheLine' /\ OnlyWritten'
    <3>1. disturbed' <=> Activating # {}
      BY <2>1, Zenon
    <3>2. 0 <= QSize
      BY QueueAssumption
    <3>3. ~activated'
      BY <2>1
    <3> QED
      BY <1>3, <2>4, <3>1, <3>2, <3>3 DEF OneStartsTheLine, OnlyWritten
  <2> QED
    BY <1>2, <1>5, <2>1, <2>3, <2>5 DEF DmaInv
<1>7. CASE ~IsEmpty(Popped)
  <2>1. activated' = TRUE /\ line' = Front(Popped) /\ disturbed' = disturbed
    BY <1>1, <1>7 DEF TxContinue
  <2>2. ~IsEmpty(txq) /\ Popped = Dequeue(txq)
    BY <1>7 DEF Popped
  <2>3. /\ Occupancy(Popped) = Occupancy(txq) - 1
        /\ \A k \in 0 .. Occupancy(txq) - 2 : ItemAt(Popped, k) = ItemAt(txq, k + 1)
        /\ Front(Popped) = ItemAt(Popped, 0)
    BY <1>4, <1>7, <2>2, DequeueEffect
  <2>4. /\ Occupancy(txq) \in Nat /\ Occupancy(Popped) \in Nat /\ Occupancy(Popped) # 0
    BY <1>4, <1>7, OccupancyType, QueueAssumption
  <2>5. OnlyWritten'
    <3>1. \A k \in 0 .. Occupancy(Popped) - 1 : ItemAt(Popped, k) = ItemAt(txq, k + 1)
                                              /\ k + 1 \in 0 .. Occupancy(txq) - 1
      BY <2>3, <2>4
    <3> QED
      BY <1>1, <3>1 DEF DmaInv, OnlyWritten
  <2>6. Front(Popped) # NoItem
    BY <1>1, <2>3, <2>4, <2>5 DEF OnlyWritten
  <2>7. Front(Popped) \in TxBlock
    <3>1. /\ Popped.get \in Nat /\ Popped.slot \in [Slot -> TxBlock \cup {NoItem}]
      BY <1>4, QueueAssumption DEF Queue, Index
    <3>2. Popped.get % QSize \in Slot
      BY <3>1, SlotOfIndex
    <3> QED
      BY <2>6, <3>1, <3>2 DEF Front
  <2>8. TxTypeOK'
    <3>1. activated' \in BOOLEAN
      BY <2>1, Zenon
    <3> QED
      BY <1>1, <1>2, <1>4, <2>1, <2>7, <3>1 DEF DmaInv, TxTypeOK
  <2>9. OneStartsTheLine'
    <3>1. ~disturbed => Occupancy(txq') <= QSize
      BY <1>1, <2>3, <2>4, QueueAssumption DEF DmaInv, OneStartsTheLine
    <3> QED
      BY <1>1, <1>7, <2>1, <3>1 DEF OneStartsTheLine
  <2> QED
    BY <1>2, <1>5, <2>1, <2>5, <2>6, <2>8, <2>9 DEF DmaInv
<1> QED
  BY <1>6, <1>7

(* Every step keeps the invariant. *)
LEMMA DmaStep == Aligned => (DmaInv /\ [TxNext]_txVars => DmaInv')
<1>1. DmaInv /\ UNCHANGED txVars => DmaInv'
  BY DEF txVars, DmaInv, TxTypeOK, PushersWait, HasBlock, OnlyWritten, OneStartsTheLine, Activating
<1> QED
  BY <1>1, DmaPushBlocks, DmaPushQueues, DmaActivateOK, DmaFailedOK, DmaDoneOK
     DEF TxNext, WriterStep

(* With a queue whose size divides the range of its indices, as 8 does 2^16:
   rt_hw_serial_isr and _serial_dma_tx keep the line busy with the oldest
   block, for any number of writers and whatever their priorities, unless one
   of them came between a push and its look at activated. *)
THEOREM LineSendsInTurn == Aligned => (TxSpec => []SentInTurnUnlessDisturbed)
<1> SUFFICES ASSUME Aligned
             PROVE  TxSpec => []SentInTurnUnlessDisturbed
  OBVIOUS
<1>1. TxInit => DmaInv
  BY DmaInit
<1>2. DmaInv /\ [TxNext]_txVars => DmaInv'
  BY DmaStep
<1>3. DmaInv => SentInTurnUnlessDisturbed
  <2> SUFFICES ASSUME DmaInv
               PROVE  SentInTurnUnlessDisturbed
    OBVIOUS
  <2>1. activated = (line # NoItem)
    BY Zenon DEF DmaInv, TxTypeOK
  <2>2. ASSUME ~disturbed
        PROVE  /\ activated => ~IsEmpty(txq) /\ line = Front(txq)
               /\ ~activated /\ ~IsEmpty(txq) => Activating # {}
    BY <2>2 DEF DmaInv, OneStartsTheLine
  <2> QED
    BY <2>1, <2>2 DEF SentInTurnUnlessDisturbed
<1> QED
  BY <1>1, <1>2, <1>3, PTL DEF TxSpec

-----------------------------------------------------------------------------
(* Reception by DMA. *)

Indices == [get : 0 .. RxSize, put : 0 .. RxSize - 1, is_full : BOOLEAN]

(* The flag goes with equal indices, and not with a get index past the end. *)
FullWhenEqual(f) == f.is_full => f.get = f.put
NotFullAtEnd(f)  == f.get = RxSize => ~f.is_full

(* A remainder that is reached without division. *)
LEMMA SmallRemainder ==
  ASSUME NEW m \in Nat, m > 0, NEW a \in Int
  PROVE  /\ a >= 0 /\ a < m => a % m = a
         /\ (a + m) % m = a % m
         /\ a >= m => a % m = (a - m) % m
<1>2. a >= 0 /\ a < m => a % m = a
  OBVIOUS
<1>3. ASSUME NEW b \in Int
      PROVE  (b + m) % m = b % m
  <2> DEFINE x == b \div m
             y == (b + m) \div m
             d == y - x - 1
  <2>1. /\ x \in Int /\ b = m * x + (b % m) /\ b % m \in 0 .. m - 1
        /\ y \in Int /\ b + m = m * y + ((b + m) % m) /\ (b + m) % m \in 0 .. m - 1
    OBVIOUS
  <2>2. m * d = (b % m) - ((b + m) % m)
    BY <2>1
  <2>3. d \in Int /\ m * d < m /\ m * d > -m
    BY <2>1, <2>2
  <2>4. d = 0
    <3> HIDE DEF d
    <3> QED
      BY <2>3
  <2> QED
    BY <2>1, <2>2, <2>4
<1>4. a >= m => a % m = (a - m) % m
  <2> SUFFICES ASSUME a >= m PROVE a % m = (a - m) % m
    OBVIOUS
  <2>1. a - m \in Int /\ (a - m) + m = a
    OBVIOUS
  <2> QED
    BY <1>3, <2>1
<1> QED
  BY <1>2, <1>3, <1>4

(* A sum may be reduced before or after its second part is added. *)
LEMMA RemainderOfSum ==
  ASSUME NEW m \in Nat, m > 0, NEW a \in 0 .. 2 * m - 1, NEW k \in Nat
  PROVE  ((a % m) + k) % m = (a + k) % m
<1>1. CASE a < m
  BY <1>1, SmallRemainder
<1>2. CASE a >= m
  <2>1. a % m = a - m
    <3>1. a % m = (a - m) % m
      BY <1>2, SmallRemainder
    <3>2. a - m \in Nat /\ a - m < m
      BY <1>2
    <3>3. (a - m) % m = a - m
      BY <3>2, SmallRemainder
    <3> QED
      BY <3>1, <3>3
  <2>2. a - m + k \in Int /\ (a - m + k) + m = a + k
    BY <1>2
  <2>3. ((a - m + k) + m) % m = (a - m + k) % m
    BY <2>2, SmallRemainder
  <2> QED
    BY <2>1, <2>2, <2>3
<1> QED
  BY <1>1, <1>2

(* Numbers less than m apart leave different remainders. *)
LEMMA RemaindersDiffer ==
  ASSUME NEW m \in Nat, m > 0, NEW a \in Nat, NEW b \in Nat, a < b, b < a + m
  PROVE  a % m # b % m
<1> DEFINE x == a \div m
           y == b \div m
           d == y - x
<1>1. /\ x \in Int /\ a = m * x + (a % m) /\ a % m \in 0 .. m - 1
      /\ y \in Int /\ b = m * y + (b % m) /\ b % m \in 0 .. m - 1
  OBVIOUS
<1> SUFFICES ASSUME a % m = b % m PROVE FALSE
  OBVIOUS
<1>2. d \in Int /\ m * d = b - a
  BY <1>1
<1> HIDE DEF d
<1>3. m * d > 0 /\ m * d < m
  BY <1>2
<1> QED
  BY <1>2, <1>3

(* The size of the buffer, as numbers. *)
LEMMA RxSizes == RxSize \in Nat /\ RxSize > 1 /\ RxSize <= 32768
  BY RxSizeAssumption

(* How many bytes the indices count. *)
LEMMA RecvedLenType ==
  ASSUME NEW f \in Indices
  PROVE  /\ RecvedLen(f) \in 0 .. RxSize
         /\ f.get \in Nat /\ f.get <= RxSize /\ f.put \in Nat /\ f.put < RxSize
         /\ RxSize \in Nat /\ RxSize > 1 /\ RxSize <= 32768
<1>1. RxSize \in Nat /\ RxSize > 1 /\ RxSize <= 32768
  BY RxSizes
<1>2. f.get \in Nat /\ f.get <= RxSize /\ f.put \in Nat /\ f.put < RxSize
  BY <1>1 DEF Indices
<1>3. RecvedLen(f) \in 0 .. RxSize
  BY <1>1, <1>2 DEF RecvedLen
<1> QED
  BY <1>1, <1>2, <1>3

(* The fields after a get. *)
LEMMA GetFields ==
  ASSUME NEW f \in Indices, NEW len \in 0 .. RecvedLen(f)
  PROVE  /\ GetAdvanced(f, len) \in Indices
         /\ GetAdvanced(f, len).put = f.put
         /\ GetAdvanced(f, len).get = IF f.get + len > RxSize THEN f.get + len - RxSize
                                                              ELSE f.get + len
         /\ GetAdvanced(f, len).is_full <=> f.is_full /\ len = 0
         /\ NotFullAtEnd(f) => NotFullAtEnd(GetAdvanced(f, len))
<1> DEFINE g == GetAdvanced(f, len)
           s == f.get + len
<1>1. /\ f.get \in Nat /\ f.get <= RxSize /\ f.put \in Nat /\ f.put < RxSize
      /\ RxSize \in Nat /\ RxSize > 1 /\ RxSize <= 32768 /\ len \in Nat /\ len <= RxSize
      /\ RecvedLen(f) \in 0 .. RxSize
  BY RecvedLenType
<1>2. s > RxSize => s % RxSize = IF s < 2 * RxSize THEN s - RxSize ELSE 0
  <2> SUFFICES ASSUME s > RxSize
               PROVE  s % RxSize = IF s < 2 * RxSize THEN s - RxSize ELSE 0
    OBVIOUS
  <2>1. s \in Nat /\ s - RxSize \in Nat /\ s - RxSize <= RxSize
    BY <1>1
  <2>2. s % RxSize = (s - RxSize) % RxSize
    BY <1>1, <2>1, SmallRemainder
  <2>3. CASE s - RxSize < RxSize
    BY <1>1, <2>1, <2>2, <2>3, SmallRemainder
  <2>4. CASE s - RxSize = RxSize
    <3>1. RxSize % RxSize = (RxSize - RxSize) % RxSize /\ RxSize - RxSize = 0 /\ 0 % RxSize = 0
      BY <1>1, SmallRemainder
    <3> QED
      BY <1>1, <2>1, <2>2, <2>4, <3>1
  <2> QED
    BY <1>1, <2>1, <2>3, <2>4
<1>3. s <= 2 * RxSize - 1
  BY <1>1 DEF RecvedLen
<1>20. s % 65536 = s
  <2>1. s \in Int /\ s >= 0 /\ s < 65536
    BY <1>1, <1>3
  <2> HIDE DEF s
  <2> QED
    BY <2>1, SmallRemainder
<1> DEFINE h == s % 65536
           new == IF h > RxSize THEN h % RxSize ELSE h
<1>21. g = [put |-> f.put, get |-> new, is_full |-> f.is_full /\ len = 0]
  BY DEF GetAdvanced
<1>22. new = IF s > RxSize THEN s % RxSize ELSE s
  BY <1>20
<1> HIDE DEF h
<1>4. g.get = (IF s > RxSize THEN s - RxSize ELSE s) /\ g.put = f.put
  <2>1. g.get = IF s > RxSize THEN s % RxSize ELSE s
    <3> HIDE DEF g, new
    <3> QED
      BY <1>21, <1>22 DEF Indices
  <2>2. g.put = f.put
    <3> HIDE DEF g, new
    <3> QED
      BY <1>21 DEF Indices
  <2> QED
    BY <1>1, <1>2, <1>3, <2>1, <2>2
<1>5. g.is_full <=> f.is_full /\ len = 0
  <2> HIDE DEF g, new
  <2> QED
    BY <1>21 DEF Indices
<1>6. g \in Indices
  <2>1. s % RxSize \in 0 .. RxSize
    BY <1>1
  <2>2. (IF s > RxSize THEN s % RxSize ELSE s) \in 0 .. RxSize
    BY <1>1, <2>1
  <2>3. (f.is_full /\ len = 0) \in BOOLEAN
    BY Zenon
  <2>4. new \in 0 .. RxSize
    BY <1>22, <2>2
  <2> HIDE DEF g, new
  <2> QED
    BY <1>21, <2>3, <2>4 DEF Indices
<1>7. NotFullAtEnd(f) => NotFullAtEnd(g)
  <2> SUFFICES ASSUME NotFullAtEnd(f), g.get = RxSize, g.is_full
               PROVE  FALSE
    BY DEF NotFullAtEnd
  <2>1. f.is_full /\ len = 0
    BY <1>5
  <2>2. f.get = RxSize
    BY <1>1, <1>4, <2>1
  <2> QED
    BY <2>1, <2>2 DEF NotFullAtEnd
<1> HIDE DEF g
<1>8. /\ g \in Indices /\ g.put = f.put
      /\ g.get = IF f.get + len > RxSize THEN f.get + len - RxSize ELSE f.get + len
  BY <1>1, <1>4, <1>6
<1>9. (g.is_full <=> f.is_full /\ len = 0) /\ (NotFullAtEnd(f) => NotFullAtEnd(g))
  BY <1>5, <1>7, Zenon
<1> QED
  BY <1>8, <1>9, Zenon DEF g

(* A read of no more than there is leaves the rest. *)
LEMMA GetCounts ==
  ASSUME NEW f \in Indices, NEW len \in 0 .. RecvedLen(f), FullWhenEqual(f), NotFullAtEnd(f)
  PROVE  /\ RecvedLen(GetAdvanced(f, len)) = RecvedLen(f) - len
         /\ FullWhenEqual(GetAdvanced(f, len))
<1> DEFINE g == GetAdvanced(f, len)
<1>1. /\ f.get \in Nat /\ f.get <= RxSize /\ f.put \in Nat /\ f.put < RxSize
      /\ RxSize \in Nat /\ RxSize > 1 /\ len \in Nat /\ len <= RxSize
      /\ RecvedLen(f) \in 0 .. RxSize /\ len <= RecvedLen(f)
  BY RecvedLenType
<1>2. /\ g.put = f.put
      /\ g.get = IF f.get + len > RxSize THEN f.get + len - RxSize ELSE f.get + len
      /\ g.is_full <=> f.is_full /\ len = 0
  BY GetFields
<1> HIDE DEF g
<1>3. CASE len = 0
  <2>1. g.put = f.put /\ g.get = f.get /\ (g.is_full <=> f.is_full)
    BY <1>1, <1>2, <1>3
  <2>2. RecvedLen(g) = RecvedLen(f) /\ FullWhenEqual(g)
    BY <2>1 DEF RecvedLen, FullWhenEqual
  <2> QED
    BY <1>1, <1>3, <2>2 DEF g
<1>4. CASE len # 0
  <2>1. ~g.is_full
    BY <1>2, <1>4
  <2>2. RecvedLen(f) # 0 /\ (f.put = f.get => f.is_full)
    BY <1>1, <1>4 DEF RecvedLen
  <2>3. RecvedLen(g) = RecvedLen(f) - len
    <3>1. CASE f.put = f.get
      <4>1. RecvedLen(f) = RxSize
        BY <2>2, <3>1 DEF RecvedLen
      <4>2. CASE len = RxSize
        <5>1. g.get = g.put \/ (g.get = RxSize /\ g.put = 0)
          BY <1>1, <1>2, <3>1, <4>2
        <5> QED
          BY <1>1, <2>1, <4>1, <4>2, <5>1 DEF RecvedLen
      <4>3. CASE len < RxSize /\ f.get + len <= RxSize
        <5>1. g.get = g.put + len
          BY <1>1, <1>2, <3>1, <4>3
        <5> QED
          BY <1>1, <1>2, <1>4, <4>1, <4>3, <5>1 DEF RecvedLen
      <4>4. CASE len < RxSize /\ f.get + len > RxSize
        <5>1. g.get = g.put + len - RxSize
          BY <1>1, <1>2, <3>1, <4>4
        <5> QED
          BY <1>1, <1>2, <1>4, <4>1, <4>4, <5>1 DEF RecvedLen
      <4> QED
        BY <1>1, <4>2, <4>3, <4>4
    <3>2. CASE f.put > f.get
      BY <1>1, <1>2, <1>4, <2>1, <3>2 DEF RecvedLen
    <3>3. CASE f.put < f.get
      <4>1. RecvedLen(f) = RxSize - (f.get - f.put)
        BY <1>1, <3>3 DEF RecvedLen
      <4>2. CASE f.get + len <= RxSize
        <5>1. g.get = f.get + len /\ g.get > g.put
          BY <1>1, <1>2, <3>3, <4>2
        <5>2. RecvedLen(g) = RxSize - (g.get - g.put)
          BY <1>1, <1>2, <5>1 DEF RecvedLen
        <5> QED
          BY <1>1, <1>2, <4>1, <5>1, <5>2
      <4>3. CASE f.get + len > RxSize
        <5>1. g.get = f.get + len - RxSize /\ g.get <= g.put
          BY <1>1, <1>2, <4>1, <4>3
        <5>2. RecvedLen(g) = g.put - g.get
          BY <1>1, <1>2, <2>1, <5>1 DEF RecvedLen
        <5> QED
          BY <1>1, <1>2, <4>1, <5>1, <5>2
      <4> QED
        BY <1>1, <4>2, <4>3
    <3> QED
      BY <1>1, <3>1, <3>2, <3>3
  <2>4. FullWhenEqual(g)
    BY <2>1 DEF FullWhenEqual
  <2> QED
    BY <2>3, <2>4 DEF g
<1> QED
  BY <1>3, <1>4

(* A reader who takes all that is counted leaves an empty ring, also one
   whose indices have gone wrong. *)
LEMMA GetAllEmpties ==
  ASSUME NEW f \in Indices, NotFullAtEnd(f)
  PROVE  /\ RecvedLen(GetAdvanced(f, RecvedLen(f))) = 0
         /\ FullWhenEqual(GetAdvanced(f, RecvedLen(f)))
<1> DEFINE n == RecvedLen(f)
           g == GetAdvanced(f, n)
<1>1. /\ f.get \in Nat /\ f.get <= RxSize /\ f.put \in Nat /\ f.put < RxSize
      /\ RxSize \in Nat /\ RxSize > 1 /\ n \in 0 .. RxSize
  BY RecvedLenType
<1>2. /\ g.put = f.put
      /\ g.get = IF f.get + n > RxSize THEN f.get + n - RxSize ELSE f.get + n
      /\ g.is_full <=> f.is_full /\ n = 0
  BY <1>1, GetFields
<1>3. n = 0 => ~f.is_full
  BY <1>1 DEF RecvedLen, NotFullAtEnd
<1>4. ~g.is_full
  BY <1>2, <1>3
<1>5. g.get = g.put \/ (g.get = RxSize /\ g.put = 0)
  BY <1>1, <1>2 DEF RecvedLen
<1> HIDE DEF g
<1>6. RecvedLen(g) = 0
  BY <1>1, <1>4, <1>5 DEF RecvedLen
<1>7. FullWhenEqual(g)
  BY <1>4 DEF FullWhenEqual
<1> QED
  BY <1>6, <1>7 DEF g

(* The put index after len bytes: at most at the end, where it starts again.
   A length reported after the DMA went round is negative. *)
LEMMA PutFields ==
  ASSUME NEW f \in Indices, NEW len \in Int, f.put + len \in 0 .. RxSize
  PROVE  /\ PutAdvanced(f, len) \in Indices
         /\ PutAdvanced(f, len).put = IF f.put + len = RxSize THEN 0 ELSE f.put + len
         /\ PutAdvanced(f, len).get # RxSize
<1> DEFINE put     == (f.put + len) % 65536
           wrapped == IF put >= RxSize THEN put % RxSize ELSE put
           passed  == IF f.get <= f.put THEN put >= RxSize /\ wrapped >= f.get
                                        ELSE put >= f.get
           get     == IF passed THEN wrapped ELSE f.get
           p == PutAdvanced(f, len)
<1>1. /\ f.get \in Nat /\ f.get <= RxSize /\ f.put \in Nat /\ f.put < RxSize
      /\ RxSize \in Nat /\ RxSize > 1 /\ RxSize <= 32768
  BY RecvedLenType
<1>2. put = f.put + len
  <2> DEFINE s == f.put + len
  <2>1. s \in Int /\ s >= 0 /\ s < 65536
    BY <1>1
  <2> HIDE DEF s
  <2>2. s % 65536 = s
    BY <2>1, SmallRemainder
  <2> QED
    BY <2>2 DEF s
<1>3. wrapped = IF f.put + len = RxSize THEN 0 ELSE f.put + len
  <2>1. RxSize % RxSize = 0
    BY <1>1
  <2> QED
    BY <1>1, <1>2, <2>1
<1>4. p = [put |-> wrapped, get |-> IF get >= RxSize THEN 0 ELSE get,
           is_full |-> (f.is_full \/ passed)]
  BY DEF PutAdvanced
<1>5. wrapped \in 0 .. RxSize - 1
  BY <1>1, <1>3
<1> HIDE DEF wrapped, put
<1>6. (IF get >= RxSize THEN 0 ELSE get) \in 0 .. RxSize - 1
  BY <1>1, <1>5
<1>7. (f.is_full \/ passed) \in BOOLEAN
  BY Zenon
<1> HIDE DEF get, passed, p
<1>8. p \in Indices /\ p.put = wrapped /\ p.get # RxSize
  BY <1>1, <1>4, <1>5, <1>6, <1>7 DEF Indices
<1> QED
  BY <1>3, <1>8 DEF p

(* As long as they fit, the bytes reported are counted, and the first unread
   one stays where it is. *)
LEMMA PutCounts ==
  ASSUME NEW f \in Indices, NEW len \in Nat, len # 0, f.put + len \in 0 .. RxSize,
         FullWhenEqual(f), NotFullAtEnd(f), RecvedLen(f) + len <= RxSize
  PROVE  /\ RecvedLen(PutAdvanced(f, len)) = RecvedLen(f) + len
         /\ FullWhenEqual(PutAdvanced(f, len))
         /\ PutAdvanced(f, len).get = IF f.get = RxSize THEN 0 ELSE f.get
<1> DEFINE put     == (f.put + len) % 65536
           wrapped == IF put >= RxSize THEN put % RxSize ELSE put
           passed  == IF f.get <= f.put THEN put >= RxSize /\ wrapped >= f.get
                                        ELSE put >= f.get
           get     == IF passed THEN wrapped ELSE f.get
           p == PutAdvanced(f, len)
           s == f.put + len
<1>1. /\ f.get \in Nat /\ f.get <= RxSize /\ f.put \in Nat /\ f.put < RxSize
      /\ RxSize \in Nat /\ RxSize > 1 /\ RxSize <= 32768 /\ RecvedLen(f) \in Nat
  BY RecvedLenType
<1>2. put = s
  <2>1. s \in Int /\ s >= 0 /\ s < 65536
    BY <1>1
  <2> HIDE DEF s
  <2>2. s % 65536 = s
    BY <2>1, SmallRemainder
  <2> QED
    BY <2>2 DEF s
<1>3. s \in 0 .. RxSize /\ RxSize % RxSize = 0
  BY <1>1
<1>4. p = [put |-> wrapped, get |-> IF get >= RxSize THEN 0 ELSE get,
           is_full |-> (f.is_full \/ passed)]
  BY DEF PutAdvanced
<1>5. ~f.is_full
  BY <1>1 DEF RecvedLen, FullWhenEqual
<1> HIDE DEF put, p
<1>8. wrapped = IF s = RxSize THEN 0 ELSE s
  BY <1>1, <1>2, <1>3
<1> HIDE DEF wrapped
<1>9. /\ p.put = wrapped /\ p.get = (IF get >= RxSize THEN 0 ELSE get)
      /\ p.is_full <=> passed
  <2> HIDE DEF get, passed
  <2> QED
    BY <1>4, <1>5, Zenon
<1>6. CASE f.get <= f.put
  <2>1. RecvedLen(f) = f.put - f.get
    BY <1>1, <1>5, <1>6 DEF RecvedLen
  <2>2. passed <=> s = RxSize /\ f.get = 0
    BY <1>1, <1>2, <1>8, <1>6
  <2>3. p.get = f.get
    BY <1>1, <1>8, <1>9, <1>6, <2>2
  <2>4. p.is_full <=> s = RxSize /\ f.get = 0
    BY <1>9, <2>2
  <2>5. p.put = IF s = RxSize THEN 0 ELSE s
    BY <1>8, <1>9
  <2>6. RecvedLen(p) = RecvedLen(f) + len
    BY <1>1, <1>6, <2>1, <2>3, <2>4, <2>5 DEF RecvedLen
  <2>7. FullWhenEqual(p)
    BY <2>3, <2>4, <2>5 DEF FullWhenEqual
  <2>8. p.get = IF f.get = RxSize THEN 0 ELSE f.get
    BY <1>1, <1>6, <2>3
  <2> QED
    BY <2>6, <2>7, <2>8 DEF p
<1>7. CASE f.get > f.put
  <2>1. RecvedLen(f) = RxSize - (f.get - f.put) /\ s <= f.get
    BY <1>1, <1>7 DEF RecvedLen
  <2>2. passed <=> s = f.get
    BY <1>1, <1>2, <1>7, <2>1
  <2>3. p.get = IF f.get = RxSize THEN 0 ELSE f.get
    BY <1>1, <1>8, <1>9, <2>1, <2>2
  <2>4. p.is_full <=> s = f.get
    BY <1>9, <2>2
  <2>5. p.put = IF s = RxSize THEN 0 ELSE s
    BY <1>8, <1>9
  <2>6. RecvedLen(p) = RecvedLen(f) + len
    <3>1. CASE s = f.get
      <4>1. p.is_full /\ p.get = p.put
        BY <1>1, <2>3, <2>4, <2>5, <3>1
      <4>2. RecvedLen(p) = RxSize
        BY <4>1 DEF RecvedLen
      <4> QED
        BY <1>1, <2>1, <3>1, <4>2
    <3>2. CASE s < f.get /\ f.get = RxSize
      <4>1. ~p.is_full /\ p.get = 0 /\ p.put = s /\ s > 0
        BY <1>1, <2>3, <2>4, <2>5, <3>2
      <4>2. RecvedLen(p) = s
        BY <1>1, <4>1 DEF RecvedLen
      <4> QED
        BY <1>1, <2>1, <3>2, <4>2
    <3>3. CASE s < f.get /\ f.get < RxSize
      <4>1. ~p.is_full /\ p.get = f.get /\ p.put = s
        BY <1>1, <2>3, <2>4, <2>5, <3>3
      <4>2. RecvedLen(p) = RxSize - (f.get - s)
        BY <1>1, <3>3, <4>1 DEF RecvedLen
      <4> QED
        BY <1>1, <2>1, <4>2
    <3> QED
      BY <1>1, <2>1, <3>1, <3>2, <3>3
  <2>7. FullWhenEqual(p)
    BY <2>3, <2>4, <2>5 DEF FullWhenEqual
  <2> QED
    BY <2>3, <2>6, <2>7 DEF p
<1> QED
  BY <1>1, <1>6, <1>7

-----------------------------------------------------------------------------
(* Where the k-th unread byte is, and its number. *)
Place(k)  == (rx_fifo.get + k) % RxSize
Number(k) == (reading + k) % RxNumbers

(* The software's put index is where the DMA was when it last reported; it
   has not gone round since, unless the interrupt of the end is pending. *)
FollowsDma == /\ rx_fifo.put = lastRecv
              /\ ~dmaTc => lastRecv <= dmaPos
              /\ NotFullAtEnd(rx_fifo)

Counted == /\ FullWhenEqual(rx_fifo)
           /\ RecvedLen(rx_fifo) + Unreported = Pending

InTheirCells == \A k \in 0 .. Pending - 1 : rxCell[Place(k)] = Number(k)

DmaRxInv == RxTypeOK /\ FollowsDma /\ (exact => Counted /\ InTheirCells)

(* The types of the parts, as numbers. *)
LEMMA RxFacts ==
  ASSUME RxTypeOK
  PROVE  /\ RxSize \in Nat /\ RxSize > 1 /\ RxSize <= 32768
         /\ RxNumbers = RxSize + 1 /\ RxNumbers \in Nat /\ RxNumbers > 0
         /\ dmaPos \in 0 .. RxSize - 1 /\ lastRecv \in 0 .. RxSize - 1
         /\ rx_fifo \in Indices
         /\ arriving \in 0 .. RxSize /\ reading \in 0 .. RxSize
         /\ Unreported \in Int
<1>1. RxSize \in Nat /\ RxSize > 1 /\ RxSize <= 32768
  BY RxSizes
<1>2. RxNumbers = RxSize + 1 /\ RxNumbers \in Nat /\ RxNumbers > 0
  BY <1>1 DEF RxNumbers
<1>3. /\ dmaPos \in 0 .. RxSize - 1 /\ lastRecv \in 0 .. RxSize - 1
      /\ rx_fifo \in Indices
  BY DEF RxTypeOK, Indices
<1>4. arriving \in 0 .. RxSize /\ reading \in 0 .. RxSize
  BY <1>1, <1>2 DEF RxTypeOK, RxNumber
<1>5. Unreported \in Int
  BY <1>1, <1>3 DEF Unreported
<1> QED
  BY <1>1, <1>2, <1>3, <1>4, <1>5

(* How far arrival is ahead of reading. *)
LEMMA PendingType ==
  ASSUME NEW a \in 0 .. RxSize, NEW b \in 0 .. RxSize, RxSize \in Nat
  PROVE  /\ (a - b) % RxNumbers = IF a >= b THEN a - b ELSE a - b + RxNumbers
         /\ (a - b) % RxNumbers \in 0 .. RxSize
         /\ (b + ((a - b) % RxNumbers)) % RxNumbers = a
<1> DEFINE n == RxSize + 1
<1>1. n \in Nat /\ n > 0 /\ n = RxSize + 1 /\ RxNumbers = n
  BY DEF RxNumbers
<1> HIDE DEF n
<1>2. CASE a >= b
  <2>1. (a - b) % n = a - b
    BY <1>1, <1>2, SmallRemainder
  <2>2. a % n = a
    BY <1>1, SmallRemainder
  <2> QED
    BY <1>1, <1>2, <2>1, <2>2
<1>3. CASE a < b
  <2>1. (a - b) % n = (a - b + n) % n
    BY <1>1, SmallRemainder
  <2>2. (a - b + n) % n = a - b + n
    BY <1>1, <1>3, SmallRemainder
  <2>3. b + (a - b + n) = a + n
    BY <1>1
  <2>4. (a + n) % n = a
    BY <1>1, SmallRemainder
  <2> QED
    BY <1>1, <1>3, <2>1, <2>2, <2>3, <2>4
<1> QED
  BY <1>2, <1>3

(* What has been reported is never more than what the DMA has written. *)
LEMMA UnreportedType ==
  ASSUME RxTypeOK, FollowsDma
  PROVE  Unreported \in Nat
  BY RxFacts DEF FollowsDma, Unreported

(* Counted bytes fit into the buffer. *)
LEMMA CountedFit ==
  ASSUME RxTypeOK, FollowsDma, Counted
  PROVE  /\ Pending \in 0 .. RxSize
         /\ RecvedLen(rx_fifo) \in Nat /\ RecvedLen(rx_fifo) <= Pending
         /\ Unreported \in Nat /\ Unreported <= Pending
<1>1. Pending \in 0 .. RxSize
  <2>1. arriving \in 0 .. RxSize /\ reading \in 0 .. RxSize /\ RxSize \in Nat
    BY RxFacts
  <2>2. (arriving - reading) % RxNumbers \in 0 .. RxSize
    BY <2>1, PendingType
  <2> QED
    BY <2>2 DEF Pending
<1>2. RecvedLen(rx_fifo) \in Nat
  BY RxFacts, RecvedLenType
<1> QED
  BY <1>1, <1>2, UnreportedType DEF Counted

(* The DMA writes next behind the last unread byte. *)
LEMMA DmaBehind ==
  ASSUME RxTypeOK, FollowsDma, Counted, Pending < RxSize
  PROVE  Place(Pending) = dmaPos
<1> DEFINE g == rx_fifo.get
           p == rx_fifo.put
           len == RecvedLen(rx_fifo)
           s == g + Pending
<1>1. /\ RxSize \in Nat /\ RxSize > 1 /\ dmaPos \in Nat /\ dmaPos < RxSize
      /\ p = lastRecv /\ lastRecv \in Nat /\ lastRecv < RxSize
  BY RxFacts DEF FollowsDma
<1>2. g \in Nat /\ g <= RxSize /\ p \in Nat /\ p < RxSize /\ len \in Nat
  BY RxFacts, RecvedLenType
<1>3. /\ Pending \in Nat /\ Unreported \in Nat /\ Pending = len + Unreported
      /\ Unreported = dmaPos - p \/ Unreported = dmaPos - p + RxSize
  BY <1>1, CountedFit DEF Counted, Unreported
<1>4. g + len = p \/ g + len = p + RxSize
  <2>1. len < RxSize
    BY <1>1, <1>2, <1>3
  <2> QED
    BY <1>1, <1>2, <2>1 DEF RecvedLen
<1>5. s = dmaPos \/ s = dmaPos + RxSize
  <2>1. s < 2 * RxSize
    BY <1>1, <1>2, <1>3
  <2>2. s = g + len + Unreported
    BY <1>2, <1>3
  <2> HIDE DEF s, len, g, p
  <2> QED
    BY <1>1, <1>2, <1>3, <1>4, <2>1, <2>2
<1>6. dmaPos % RxSize = dmaPos /\ (dmaPos + RxSize) % RxSize = dmaPos
  BY <1>1, SmallRemainder
<1> QED
  BY <1>5, <1>6 DEF Place

(* Reception begins with nothing counted and nothing pending. *)
LEMMA DmaRxStart == RxInit => DmaRxInv
<1> SUFFICES ASSUME RxInit PROVE DmaRxInv
  OBVIOUS
<1>1. RxSize \in Nat /\ RxSize > 1 /\ RxNumbers = RxSize + 1
  <2>1. RxSize \in Nat /\ RxSize > 1
    BY RxSizes
  <2> QED
    BY <2>1 DEF RxNumbers
<1>2. /\ dmaPos = 0 /\ dmaTc = FALSE /\ idle = "no" /\ lastRecv = 0
      /\ rx_fifo = [get |-> 0, put |-> 0, is_full |-> FALSE]
      /\ rxCell = [c \in 0 .. RxSize - 1 |-> 0]
      /\ arriving = 0 /\ reading = 0 /\ exact = TRUE
  BY Zenon DEF RxInit
<1>3. /\ rx_fifo.get = 0 /\ rx_fifo.put = 0 /\ ~rx_fifo.is_full
      /\ rx_fifo \in [get : 0 .. RxSize, put : 0 .. RxSize - 1, is_full : BOOLEAN]
  BY <1>1, <1>2
<1>4. RxTypeOK
  <2>1. dmaTc \in BOOLEAN /\ exact \in BOOLEAN
    BY <1>2, Zenon
  <2>2. rxCell \in [0 .. RxSize - 1 -> RxNumber] /\ arriving \in RxNumber /\ reading \in RxNumber
    BY <1>1, <1>2 DEF RxNumber
  <2> QED
    BY <1>1, <1>2, <1>3, <2>1, <2>2 DEF RxTypeOK
<1>5. FollowsDma /\ FullWhenEqual(rx_fifo)
  BY <1>1, <1>2, <1>3 DEF FollowsDma, NotFullAtEnd, FullWhenEqual
<1>6. RecvedLen(rx_fifo) = 0 /\ Unreported = 0
  BY <1>2, <1>3 DEF RecvedLen, Unreported
<1>7. Pending = 0
  <2>1. 0 % RxNumbers = 0
    <3>1. RxNumbers \in Nat /\ RxNumbers > 0 /\ 0 \in Int /\ 0 >= 0 /\ 0 < RxNumbers
      BY <1>1
    <3> HIDE DEF RxNumbers
    <3> QED
      BY <3>1, SmallRemainder
  <2> QED
    BY <1>2, <2>1 DEF Pending
<1> QED
  BY <1>4, <1>5, <1>6, <1>7 DEF DmaRxInv, Counted, InTheirCells

(* The DMA stores the byte that arrives where no unread one is. *)
LEMMA DmaByteOK ==
  ASSUME DmaRxInv, DmaByte
  PROVE  DmaRxInv'
<1>1. /\ ~(dmaTc /\ dmaPos = RxSize - 1)
      /\ rxCell' = [rxCell EXCEPT ![dmaPos] = arriving]
      /\ arriving' = (arriving + 1) % RxNumbers
      /\ dmaPos' = (dmaPos + 1) % RxSize
      /\ UNCHANGED <<idle, lastRecv, rx_fifo, reading>>
  BY DEF DmaByte
<1>2. dmaTc' \in BOOLEAN /\ (dmaTc' <=> dmaTc \/ dmaPos = RxSize - 1)
  BY Zenon DEF DmaByte
<1>3. exact' \in BOOLEAN /\ (exact' <=> exact /\ Pending < RxSize)
  BY Zenon DEF DmaByte
<1>4. /\ RxSize \in Nat /\ RxSize > 1 /\ RxNumbers = RxSize + 1 /\ RxNumbers \in Nat
      /\ dmaPos \in 0 .. RxSize - 1 /\ lastRecv \in 0 .. RxSize - 1
      /\ arriving \in 0 .. RxSize /\ reading \in 0 .. RxSize
  BY RxFacts DEF DmaRxInv
<1>5. dmaPos' = IF dmaPos = RxSize - 1 THEN 0 ELSE dmaPos + 1
  <2>1. dmaPos + 1 < RxSize => (dmaPos + 1) % RxSize = dmaPos + 1
    BY <1>4, SmallRemainder
  <2>2. RxSize % RxSize = 0
    BY <1>4
  <2> QED
    BY <1>1, <1>4, <2>1, <2>2
<1>6. arriving' = IF arriving = RxSize THEN 0 ELSE arriving + 1
  <2>1. arriving + 1 < RxNumbers => (arriving + 1) % RxNumbers = arriving + 1
    BY <1>4, SmallRemainder
  <2>2. RxNumbers % RxNumbers = 0
    BY <1>4
  <2> QED
    BY <1>1, <1>4, <2>1, <2>2
<1>7. RxTypeOK'
  <2>1. dmaPos' \in 0 .. RxSize - 1 /\ arriving' \in RxNumber
    BY <1>4, <1>5, <1>6 DEF RxNumber
  <2>2. rxCell' \in [0 .. RxSize - 1 -> RxNumber]
    BY <1>1, <1>4 DEF DmaRxInv, RxTypeOK, RxNumber
  <2> QED
    BY <1>1, <1>2, <1>3, <2>1, <2>2 DEF DmaRxInv, RxTypeOK
<1>8. FollowsDma'
  <2>1. ~dmaTc' => lastRecv <= dmaPos'
    BY <1>2, <1>4, <1>5 DEF DmaRxInv, FollowsDma
  <2> QED
    BY <1>1, <2>1 DEF DmaRxInv, FollowsDma, NotFullAtEnd
<1>9. ASSUME exact'
      PROVE  Counted' /\ InTheirCells'
  <2>1. RxTypeOK /\ FollowsDma /\ Counted /\ InTheirCells /\ Pending < RxSize
    BY <1>3, <1>9 DEF DmaRxInv
  <2>2. Pending \in Nat /\ (arriving - reading) % RxNumbers = Pending
    BY <2>1, CountedFit DEF Pending
  <2>3. Pending' = Pending + 1
    <3>1. Pending = IF arriving >= reading THEN arriving - reading
                                           ELSE arriving - reading + RxNumbers
      BY <1>4, <2>2, PendingType
    <3>2. arriving' \in 0 .. RxSize /\ reading' = reading
      BY <1>1, <1>4, <1>6
    <3>3. (arriving' - reading) % RxNumbers =
            IF arriving' >= reading THEN arriving' - reading ELSE arriving' - reading + RxNumbers
      BY <1>4, <3>2, PendingType
    <3>4. Pending' = (arriving' - reading) % RxNumbers
      BY <3>2 DEF Pending, RxNumbers
    <3> QED
      BY <1>4, <1>6, <2>1, <2>2, <3>1, <3>3, <3>4
  <2>4. Unreported' = Unreported + 1
    <3>1. CASE dmaTc
      BY <1>1, <1>2, <1>4, <1>5, <3>1 DEF Unreported
    <3>2. CASE ~dmaTc /\ dmaPos = RxSize - 1
      BY <1>1, <1>2, <1>4, <1>5, <3>2 DEF Unreported
    <3>3. CASE ~dmaTc /\ dmaPos # RxSize - 1
      BY <1>1, <1>2, <1>4, <1>5, <3>3 DEF Unreported
    <3> QED
      BY <3>1, <3>2, <3>3
  <2>5. Counted'
    <3>1. RecvedLen(rx_fifo') = RecvedLen(rx_fifo) /\ FullWhenEqual(rx_fifo')
      BY <1>1, <2>1 DEF Counted
    <3>2. RecvedLen(rx_fifo) \in Nat /\ Unreported \in Nat
      BY <2>1, CountedFit
    <3>3. RecvedLen(rx_fifo') + Unreported' = Pending'
      BY <2>1, <2>2, <2>3, <2>4, <3>1, <3>2 DEF Counted
    <3> QED
      BY <3>1, <3>3 DEF Counted
  <2>6. Place(Pending) = dmaPos
    BY <2>1, DmaBehind
  <2>7. Number(Pending) = arriving
    BY <1>4, <2>2, PendingType DEF Number
  <2>8. ASSUME NEW k \in 0 .. Pending' - 1
        PROVE  rxCell'[Place(k)] = Number(k)
    <3>1. k \in Nat /\ (k < Pending \/ k = Pending)
      BY <2>2, <2>3, <2>8
    <3>2. rxCell \in [0 .. RxSize - 1 -> RxNumber]
      BY DEF DmaRxInv, RxTypeOK
    <3>3. CASE k = Pending
      BY <1>1, <1>4, <2>6, <2>7, <3>2, <3>3
    <3>4. CASE k < Pending
      <4>1. rx_fifo.get \in Nat
        BY <2>1, RxFacts, RecvedLenType
      <4>2. Place(k) # dmaPos
        <5> DEFINE a == rx_fifo.get + k
                   b == rx_fifo.get + Pending
        <5>1. /\ RxSize \in Nat /\ RxSize > 0
              /\ a \in Nat /\ b \in Nat /\ a < b /\ b < a + RxSize
          BY <1>4, <2>1, <2>2, <3>1, <3>4, <4>1
        <5>2. Place(k) = a % RxSize /\ Place(Pending) = b % RxSize
          BY DEF Place
        <5> HIDE DEF a, b
        <5>3. a % RxSize # b % RxSize
          BY <5>1, RemaindersDiffer
        <5> QED
          BY <2>6, <5>2, <5>3
      <4>3. rxCell[Place(k)] = Number(k)
        BY <2>1, <2>2, <3>1, <3>4 DEF InTheirCells
      <4> QED
        BY <1>1, <1>4, <3>2, <4>2, <4>3
    <3> QED
      BY <3>1, <3>3, <3>4
  <2>9. InTheirCells'
    BY <1>1, <2>8 DEF InTheirCells, Place, Number
  <2> QED
    BY <2>5, <2>9
<1> QED
  BY <1>7, <1>8, <1>9 DEF DmaRxInv

(* The interrupts that only pass their turn on. *)
LEMMA RxIdleOK ==
  ASSUME DmaRxInv, IdleLine \/ IdleEnter \/ UNCHANGED rxVars
  PROVE  DmaRxInv'
<1>1. /\ UNCHANGED <<dmaPos, dmaTc, lastRecv, rx_fifo, rxCell, arriving, reading, exact>>
      /\ idle' \in {"no", "pending", "entered"}
  BY DEF IdleLine, IdleEnter, rxVars, dmaVars, DmaRxInv, RxTypeOK
<1> QED
  BY <1>1 DEF DmaRxInv, RxTypeOK, RxNumber, FollowsDma, Counted, InTheirCells, Place, Number,
              Pending, Unreported

(* A report of len bytes moves them from what the DMA has written to what the
   ring counts. *)
LEMMA Reported ==
  ASSUME RxTypeOK, FollowsDma, Counted, InTheirCells,
         NEW len \in Nat, len # 0, len <= Unreported, rx_fifo.put + len \in 0 .. RxSize,
         rx_fifo' = PutAdvanced(rx_fifo, len),
         Unreported' = Unreported - len, UNCHANGED <<rxCell, arriving, reading>>
  PROVE  Counted' /\ InTheirCells'
<1>1. /\ RxSize \in Nat /\ RxSize > 1 /\ rx_fifo \in Indices
  BY RxFacts
<1>2. /\ Pending \in 0 .. RxSize /\ RecvedLen(rx_fifo) \in Nat /\ Unreported \in Nat
      /\ RecvedLen(rx_fifo) + Unreported = Pending
      /\ FullWhenEqual(rx_fifo) /\ NotFullAtEnd(rx_fifo)
  BY CountedFit DEF Counted, FollowsDma
<1>3. /\ RecvedLen(rx_fifo') = RecvedLen(rx_fifo) + len
      /\ FullWhenEqual(rx_fifo')
      /\ rx_fifo'.get = IF rx_fifo.get = RxSize THEN 0 ELSE rx_fifo.get
  BY <1>1, <1>2, PutCounts
<1>4. Pending' = Pending
  BY DEF Pending, RxNumbers
<1>5. Counted'
  <2>1. RecvedLen(rx_fifo') + Unreported' = Pending'
    BY <1>2, <1>3, <1>4
  <2> QED
    BY <1>3, <2>1 DEF Counted
<1>6. ASSUME NEW k \in 0 .. Pending - 1
      PROVE  (rx_fifo'.get + k) % RxSize = Place(k)
  <2>1. k \in Int /\ RxSize \in Nat /\ RxSize > 0
    BY <1>1, <1>2
  <2>2. CASE rx_fifo.get = RxSize
    <3>1. (k + RxSize) % RxSize = k % RxSize
      BY <2>1, SmallRemainder
    <3>2. rx_fifo'.get + k = k /\ rx_fifo.get + k = k + RxSize
      BY <1>3, <2>1, <2>2
    <3> QED
      BY <3>1, <3>2 DEF Place
  <2>3. CASE rx_fifo.get # RxSize
    BY <1>3, <2>3 DEF Place
  <2> QED
    BY <2>2, <2>3
<1>7. InTheirCells'
  <2> SUFFICES ASSUME NEW k \in 0 .. Pending - 1
               PROVE  rxCell[(rx_fifo'.get + k) % RxSize] = Number(k)
    BY <1>4 DEF InTheirCells, Place, Number, RxNumbers
  <2> QED
    BY <1>6 DEF InTheirCells
<1> QED
  BY <1>5, <1>7

(* The interrupt at the end of the buffer reports up to the end. *)
LEMMA DmaRxDoneOK ==
  ASSUME DmaRxInv, DmaRxDone
  PROVE  DmaRxInv'
<1> DEFINE len == RxSize - lastRecv
<1>1. /\ dmaTc /\ dmaTc' = FALSE /\ lastRecv' = 0 /\ rx_fifo' = PutAdvanced(rx_fifo, len)
      /\ UNCHANGED <<dmaPos, idle, rxCell, arriving, reading, exact>>
  BY DEF DmaRxDone
<1>2. /\ RxSize \in Nat /\ RxSize > 1 /\ rx_fifo \in Indices
      /\ dmaPos \in 0 .. RxSize - 1 /\ lastRecv \in 0 .. RxSize - 1
      /\ rx_fifo.put = lastRecv
  BY RxFacts DEF DmaRxInv, FollowsDma
<1>3. len \in Nat /\ len # 0 /\ rx_fifo.put + len = RxSize
  BY <1>2
<1>4. rx_fifo' \in Indices /\ rx_fifo'.put = 0 /\ rx_fifo'.get # RxSize
  <2>1. len \in Int /\ rx_fifo.put + len \in 0 .. RxSize
    BY <1>2, <1>3
  <2> HIDE DEF len
  <2>2. /\ PutAdvanced(rx_fifo, len) \in Indices
        /\ PutAdvanced(rx_fifo, len).put = (IF rx_fifo.put + len = RxSize THEN 0
                                                                  ELSE rx_fifo.put + len)
        /\ PutAdvanced(rx_fifo, len).get # RxSize
    BY <1>2, <2>1, PutFields
  <2> QED
    BY <1>1, <1>3, <2>2
<1>5. RxTypeOK'
  <2>1. dmaTc' \in BOOLEAN
    BY <1>1, Zenon
  <2> QED
    BY <1>1, <1>2, <1>4, <2>1 DEF DmaRxInv, RxTypeOK, Indices, RxNumber, RxNumbers
<1>6. FollowsDma'
  BY <1>1, <1>2, <1>4 DEF FollowsDma, NotFullAtEnd
<1>7. Unreported' = Unreported - len /\ len <= Unreported
  BY <1>1, <1>2 DEF Unreported
<1>8. ASSUME exact'
      PROVE  Counted' /\ InTheirCells'
  <2>1. RxTypeOK /\ FollowsDma /\ Counted /\ InTheirCells
    BY <1>1, <1>8 DEF DmaRxInv
  <2> HIDE DEF len
  <2> QED
    BY <1>1, <1>2, <1>3, <1>7, <2>1, Reported
<1> QED
  BY <1>5, <1>6, <1>8 DEF DmaRxInv

(* The one of the idle line reports up to the DMA. *)
LEMMA IdleReportOK ==
  ASSUME DmaRxInv, IdleReport
  PROVE  DmaRxInv'
<1> DEFINE len == dmaPos - lastRecv
<1>1. /\ idle' = "no" /\ lastRecv' = dmaPos
      /\ rx_fifo' = (IF len = 0 THEN rx_fifo ELSE PutAdvanced(rx_fifo, len))
      /\ UNCHANGED <<dmaPos, dmaTc, rxCell, arriving, reading>>
  BY DEF IdleReport
<1>2. exact' \in BOOLEAN /\ (exact' <=> exact /\ ~dmaTc)
  BY Zenon DEF IdleReport
<1>3. /\ RxSize \in Nat /\ RxSize > 1 /\ rx_fifo \in Indices
      /\ dmaPos \in 0 .. RxSize - 1 /\ lastRecv \in 0 .. RxSize - 1
      /\ rx_fifo.put = lastRecv
  BY RxFacts DEF DmaRxInv, FollowsDma
<1>4. len \in Int /\ rx_fifo.put + len = dmaPos
  BY <1>3
<1>5. CASE len = 0
  <2>1. rx_fifo' = rx_fifo /\ lastRecv' = lastRecv
    BY <1>1, <1>3, <1>5
  <2>2. RxTypeOK'
    BY <1>1, <1>2, <2>1 DEF DmaRxInv, RxTypeOK, RxNumber, RxNumbers
  <2> QED
    BY <1>1, <1>2, <2>1, <2>2 DEF DmaRxInv, FollowsDma, Counted, InTheirCells, Place, Number,
                                  Pending, Unreported, RxNumbers
<1>6. CASE len # 0
  <2>1. rx_fifo' = PutAdvanced(rx_fifo, len)
    BY <1>1, <1>6
  <2>2. rx_fifo' \in Indices /\ rx_fifo'.put = dmaPos /\ rx_fifo'.get # RxSize
    <3> HIDE DEF len
    <3>1. rx_fifo.put + len \in 0 .. RxSize /\ dmaPos # RxSize
      BY <1>3, <1>4
    <3> QED
      BY <1>3, <1>4, <2>1, <3>1, PutFields
  <2>3. RxTypeOK'
    BY <1>1, <1>2, <1>3, <2>2 DEF DmaRxInv, RxTypeOK, Indices, RxNumber, RxNumbers
  <2>4. FollowsDma'
    BY <1>1, <1>3, <2>2 DEF FollowsDma, NotFullAtEnd
  <2>5. ASSUME exact'
        PROVE  Counted' /\ InTheirCells'
    <3>1. ~dmaTc /\ RxTypeOK /\ FollowsDma /\ Counted /\ InTheirCells
      BY <1>2, <2>5 DEF DmaRxInv
    <3>2. Unreported = len /\ Unreported' = 0 /\ len \in Nat
      BY <1>1, <1>3, <3>1 DEF Unreported, FollowsDma
    <3>3. len <= Unreported /\ Unreported' = Unreported - len /\ rx_fifo.put + len \in 0 .. RxSize
      BY <1>3, <1>4, <3>2
    <3> HIDE DEF len
    <3> QED
      BY <1>1, <1>6, <2>1, <3>1, <3>2, <3>3, Reported
  <2> QED
    BY <2>3, <2>4, <2>5 DEF DmaRxInv
<1> QED
  BY <1>5, <1>6

(* A reader takes the oldest bytes; one who has caught up starts right. *)
LEMMA DmaReadOK ==
  ASSUME DmaRxInv, NEW n \in 1 .. RxSize, DmaRead(n)
  PROVE  DmaRxInv'
<1> DEFINE len == IF n < RecvedLen(rx_fifo) THEN n ELSE RecvedLen(rx_fifo)
           caughtUp == len = RecvedLen(rx_fifo) /\ Unreported = 0
<1>1. /\ rx_fifo' = GetAdvanced(rx_fifo, len)
      /\ reading' = (IF caughtUp THEN arriving ELSE (reading + len) % RxNumbers)
      /\ UNCHANGED <<dmaPos, dmaTc, idle, lastRecv, rxCell, arriving>>
  BY DEF DmaRead
<1>2. exact' \in BOOLEAN /\ (exact' <=> exact \/ caughtUp)
  BY Zenon DEF DmaRead
<1>3. /\ RxSize \in Nat /\ RxSize > 1 /\ RxNumbers = RxSize + 1 /\ RxNumbers \in Nat
      /\ rx_fifo \in Indices /\ arriving \in 0 .. RxSize /\ reading \in 0 .. RxSize
      /\ RecvedLen(rx_fifo) \in 0 .. RxSize
      /\ rx_fifo.get \in Nat /\ rx_fifo.get <= RxSize
  BY RxFacts, RecvedLenType DEF DmaRxInv
<1>4. len \in 0 .. RecvedLen(rx_fifo) /\ len \in Nat /\ len <= RxSize
  BY <1>3
<1> HIDE DEF len
<1>5. /\ rx_fifo' \in Indices /\ rx_fifo'.put = rx_fifo.put
      /\ rx_fifo'.get = (IF rx_fifo.get + len > RxSize THEN rx_fifo.get + len - RxSize
                                                       ELSE rx_fifo.get + len)
      /\ NotFullAtEnd(rx_fifo) => NotFullAtEnd(rx_fifo')
  BY <1>1, <1>3, <1>4, GetFields
<1>6. RxTypeOK'
  <2>1. (reading + len) % RxNumbers \in 0 .. RxNumbers - 1
    BY <1>3, <1>4
  <2>2. reading' \in RxNumber
    BY <1>1, <1>3, <2>1 DEF RxNumber
  <2> QED
    BY <1>1, <1>2, <1>5, <2>2 DEF DmaRxInv, RxTypeOK, Indices, RxNumber, RxNumbers
<1>7. FollowsDma'
  BY <1>1, <1>5 DEF DmaRxInv, FollowsDma
<1>8. Unreported' = Unreported
  BY <1>1 DEF Unreported
<1>9. CASE caughtUp
  <2>1. len = RecvedLen(rx_fifo) /\ Unreported = 0 /\ reading' = arriving
    BY <1>1, <1>9
  <2>2. RecvedLen(rx_fifo') = 0 /\ FullWhenEqual(rx_fifo')
    BY <1>1, <1>3, <2>1, GetAllEmpties DEF DmaRxInv, FollowsDma
  <2>3. Pending' = 0
    <3>1. RxNumbers \in Nat /\ RxNumbers > 0 /\ 0 \in Int /\ 0 >= 0 /\ 0 < RxNumbers
      BY <1>3
    <3>2. 0 % RxNumbers = 0
      BY <3>1, SmallRemainder
    <3>3. arriving' - reading' = 0
      BY <1>1, <1>3, <2>1
    <3>4. Pending' = (arriving' - reading') % RxNumbers
      BY DEF Pending, RxNumbers
    <3> QED
      BY <3>2, <3>3, <3>4
  <2>4. Counted' /\ InTheirCells'
    BY <1>8, <2>1, <2>2, <2>3 DEF Counted, InTheirCells
  <2> QED
    BY <1>6, <1>7, <2>4 DEF DmaRxInv
<1>10. CASE ~caughtUp
  <2>1. reading' = (reading + len) % RxNumbers
    BY <1>1, <1>10
  <2>2. ASSUME exact'
        PROVE  Counted' /\ InTheirCells'
    <3>1. RxTypeOK /\ FollowsDma /\ Counted /\ InTheirCells
      BY <1>2, <1>10, <2>2 DEF DmaRxInv
    <3>2. /\ Pending \in 0 .. RxSize /\ Unreported \in Nat /\ len <= Pending
          /\ RecvedLen(rx_fifo) + Unreported = Pending
          /\ FullWhenEqual(rx_fifo) /\ NotFullAtEnd(rx_fifo)
      <4>1. /\ Pending \in 0 .. RxSize /\ RecvedLen(rx_fifo) \in Nat
            /\ RecvedLen(rx_fifo) <= Pending /\ Unreported \in Nat
        BY <3>1, CountedFit
      <4> QED
        BY <1>4, <3>1, <4>1 DEF Counted, FollowsDma
    <3>3. RecvedLen(rx_fifo') = RecvedLen(rx_fifo) - len /\ FullWhenEqual(rx_fifo')
      BY <1>1, <1>3, <1>4, <3>2, GetCounts
    <3>4. Pending' = Pending - len
      <4>1. Pending = IF arriving >= reading THEN arriving - reading
                                             ELSE arriving - reading + RxNumbers
        BY <1>3, PendingType DEF Pending
      <4>2. reading' = IF reading + len < RxNumbers THEN reading + len
                                                    ELSE reading + len - RxNumbers
        <5>1. reading + len < RxNumbers => (reading + len) % RxNumbers = reading + len
          BY <1>3, <1>4, SmallRemainder
        <5>2. reading + len >= RxNumbers =>
                (reading + len) % RxNumbers = (reading + len - RxNumbers) % RxNumbers
          BY <1>3, <1>4, SmallRemainder
        <5>3. reading + len >= RxNumbers =>
                (reading + len - RxNumbers) % RxNumbers = reading + len - RxNumbers
          BY <1>3, <1>4, SmallRemainder
        <5> QED
          BY <1>3, <1>4, <2>1, <5>1, <5>2, <5>3
      <4>3. reading' \in 0 .. RxSize
        BY <1>3, <1>4, <4>2
      <4>4. (arriving - reading') % RxNumbers =
              IF arriving >= reading' THEN arriving - reading' ELSE arriving - reading' + RxNumbers
        BY <1>3, <4>3, PendingType
      <4>5. Pending' = (arriving - reading') % RxNumbers
        BY <1>1 DEF Pending, RxNumbers
      <4> QED
        BY <1>3, <1>4, <3>2, <4>1, <4>2, <4>4, <4>5
    <3>5. Counted'
      <4>1. RecvedLen(rx_fifo') + Unreported' = Pending'
        BY <1>3, <1>4, <1>8, <3>2, <3>3, <3>4
      <4> QED
        BY <3>3, <4>1 DEF Counted
    <3>6. ASSUME NEW k \in 0 .. Pending' - 1
          PROVE  rxCell[(rx_fifo'.get + k) % RxSize] = (reading' + k) % RxNumbers
      <4>1. k \in Nat /\ len + k \in 0 .. Pending - 1
        BY <1>4, <3>2, <3>4, <3>6
      <4>2. rxCell[Place(len + k)] = Number(len + k)
        BY <3>1, <4>1 DEF InTheirCells
      <4>3. (rx_fifo'.get + k) % RxSize = Place(len + k)
        <5> DEFINE x == rx_fifo.get + len - RxSize + k
                   y == rx_fifo.get + (len + k)
        <5>1. /\ x \in Int /\ x + RxSize = y /\ RxSize > 0
              /\ rx_fifo'.get + k = (IF rx_fifo.get + len > RxSize THEN x ELSE y)
          BY <1>3, <1>4, <1>5, <4>1
        <5>2. Place(len + k) = y % RxSize
          BY DEF Place
        <5> HIDE DEF x, y
        <5>3. (x + RxSize) % RxSize = x % RxSize
          BY <1>3, <5>1, SmallRemainder
        <5> QED
          BY <5>1, <5>2, <5>3
      <4>4. (reading' + k) % RxNumbers = Number(len + k)
        <5> DEFINE a == reading + len
        <5>1. a \in 0 .. 2 * RxNumbers - 1 /\ a + k = reading + (len + k) /\ RxNumbers > 0
          BY <1>3, <1>4, <4>1
        <5>2. reading' = a % RxNumbers /\ Number(len + k) = (reading + (len + k)) % RxNumbers
          BY <2>1 DEF Number
        <5> HIDE DEF a
        <5>3. ((a % RxNumbers) + k) % RxNumbers = (a + k) % RxNumbers
          BY <1>3, <4>1, <5>1, RemainderOfSum
        <5> QED
          BY <5>1, <5>2, <5>3
      <4> QED
        BY <4>2, <4>3, <4>4
    <3>7. InTheirCells'
      BY <1>1, <3>6 DEF InTheirCells, Place, Number, RxNumbers
    <3> QED
      BY <3>5, <3>7
  <2> QED
    BY <1>6, <1>7, <2>2 DEF DmaRxInv
<1> QED
  BY <1>9, <1>10

(* Every step keeps the invariant. *)
LEMMA DmaRxStep == DmaRxInv /\ [RxNext]_rxVars => DmaRxInv'
  BY DmaByteOK, RxIdleOK, DmaRxDoneOK, IdleReportOK, DmaReadOK DEF RxNext

(* The indices rt_dma_recv_update_get_index and _put_index keep follow the
   DMA round the buffer, for every size of the buffer: what is read is what
   arrived, in order, until a byte is overwritten unread or the DMA goes round
   within the interrupt of the idle line, and again once a reader has caught
   up. *)
THEOREM DmaReadsWhatArrived == RxSpec => []DmaReadsInOrder
<1>1. DmaRxInv => DmaReadsInOrder
  <2> SUFFICES ASSUME DmaRxInv, exact
               PROVE  /\ RecvedLen(rx_fifo) + Unreported = Pending
                      /\ \A k \in 0 .. RecvedLen(rx_fifo) - 1 :
                           rxCell[(rx_fifo.get + k) % RxSize] = (reading + k) % RxNumbers
    BY DEF DmaReadsInOrder
  <2>1. RxTypeOK /\ FollowsDma /\ Counted /\ InTheirCells
    BY DEF DmaRxInv
  <2>2. Pending \in Int /\ RecvedLen(rx_fifo) \in Nat /\ RecvedLen(rx_fifo) <= Pending
    BY <2>1, CountedFit
  <2>3. \A k \in 0 .. RecvedLen(rx_fifo) - 1 : k \in 0 .. Pending - 1
    BY <2>2
  <2> QED
    BY <2>1, <2>3 DEF Counted, InTheirCells, Place, Number
<1> QED
  BY <1>1, DmaRxStart, DmaRxStep, PTL DEF RxSpec

-----------------------------------------------------------------------------
(* The orders to the lamp: midLight_action, from three threads, and the lamp
   thread never queue more than there is room for. *)
LEMMA LampStep == LampTypeOK /\ [LampNext]_lampVars => LampTypeOK'
<1> SUFFICES ASSUME LampTypeOK, [LampNext]_lampVars PROVE LampTypeOK'
  OBVIOUS
<1>1. /\ lampq \in Seq(Orders) /\ Len(lampq) \in Nat /\ Len(lampq) <= LampMax
      /\ shown \in Orders \cup {"none"}
      /\ lpc \in [Givers -> {"idle", "room", "again"}]
      /\ LampMax \in Nat \ {0}
  BY LampAssumption DEF LampTypeOK
<1>2. ASSUME NEW order \in Orders, Len(lampq) < LampMax
      PROVE  /\ Append(lampq, order) \in Seq(Orders) /\ Len(Append(lampq, order)) <= LampMax
             /\ <<order>> \o lampq \in Seq(Orders) /\ Len(<<order>> \o lampq) <= LampMax
  BY <1>1, <1>2
<1>3. ASSUME lampq # <<>>
      PROVE  /\ Tail(lampq) \in Seq(Orders) /\ Len(Tail(lampq)) <= LampMax
             /\ Head(lampq) \in Orders
  BY <1>1, <1>3
<1>4. \A t \in {"key", "main"} : UrgentOrder(t) \in Orders /\ t \in Givers
  BY DEF UrgentOrder, Orders, Givers
<1>5. started' \in BOOLEAN /\ polling' \in BOOLEAN
  <2>1. started \in BOOLEAN /\ polling \in BOOLEAN
    BY DEF LampTypeOK
  <2>2. polling' \in {polling, TRUE}
    BY Zenon DEF LampNext, OrderUrgently, UrgentStep, MakeRoom, OrderAgain,
                 StartWithoutModem, StartPolling, OrderLamp, TakeOrder, EndOrder, lampVars
  <2>3. started' \in BOOLEAN
    BY <2>1, Zenon DEF LampNext, OrderUrgently, UrgentStep, MakeRoom, OrderAgain,
                       StartWithoutModem, StartPolling, OrderLamp, TakeOrder, EndOrder, lampVars
  <2> QED
    BY <2>1, <2>2, <2>3, Zenon
<1> DEFINE Typed == /\ lampq' \in Seq(Orders) /\ Len(lampq') <= LampMax
                    /\ shown' \in Orders \cup {"none"}
                    /\ lpc' \in [Givers -> {"idle", "room", "again"}]
<1>6. ASSUME NEW t \in {"key", "main"}, OrderUrgently(t) \/ UrgentStep(t)
      PROVE  Typed
  BY <1>1, <1>2, <1>3, <1>4, <1>6 DEF OrderUrgently, UrgentStep, MakeRoom, OrderAgain
<1>7. ASSUME NEW t, NEW order \in Orders, OrderLamp(t, order)
      PROVE  Typed
  BY <1>1, <1>2, <1>7 DEF OrderLamp
<1>8. ASSUME StartWithoutModem \/ StartPolling \/ TakeOrder \/ EndOrder
      PROVE  Typed
  BY <1>1, <1>3, <1>8 DEF StartWithoutModem, StartPolling, TakeOrder, EndOrder
<1>9. ASSUME UNCHANGED lampVars
      PROVE  Typed
  BY <1>1, <1>9 DEF lampVars
<1> HIDE DEF Typed
<1>10. "message" \in Orders /\ "sent" \in Orders
  BY DEF Orders
<1>11. Typed
  BY <1>6, <1>7, <1>8, <1>9, <1>10 DEF LampNext
<1> QED
  BY <1>5, <1>11 DEF LampTypeOK, Typed

(* The lamp's queue begins empty. *)
LEMMA LampStart == LampInit => LampTypeOK
<1> SUFFICES ASSUME LampInit PROVE LampTypeOK
  OBVIOUS
<1>1. started \in BOOLEAN /\ polling \in BOOLEAN
  BY DEF LampInit
<1>2. lampq \in Seq(Orders) /\ Len(lampq) <= LampMax
  BY LampAssumption, EmptySeq DEF LampInit
<1> QED
  BY <1>1, <1>2 DEF LampInit, LampTypeOK

(* The type invariant of the lamp, of which only the length says something: orders
   given at any time, in front and behind, never exceed the queue. *)
THEOREM LampTypeCorrect == LampSpec => []LampTypeOK
BY LampStart, LampStep, PTL DEF LampSpec

-----------------------------------------------------------------------------
(* A step of the services is a step of each of them or none. *)
LEMMA EachServiceSteps ==
  ASSUME [ServicesNext]_servicesVars
  PROVE  /\ [PipeNext]_pipeVars /\ [WorkNext]_workVars /\ [TxNext]_txVars
         /\ [RxNext]_rxVars /\ [ConsoleNext]_consoleVars /\ [LampNext]_lampVars
  BY DEF ServicesNext, servicesVars

(* Side by side the services keep the types each of them keeps by itself, with
   the invariants that takes. *)
THEOREM ServicesTypeCorrect == Aligned => (ServicesSpec => []ServicesTypeOK)
<1> DEFINE Inv == /\ FileInv /\ WorkInv /\ DmaInv /\ DmaRxInv /\ ConsoleInv /\ LampTypeOK
<1> SUFFICES ASSUME Aligned PROVE ServicesSpec => []ServicesTypeOK
  OBVIOUS
<1>1. ServicesInit => Inv
  BY FileInit, WorkInvInit, DmaInit, DmaRxStart, ConsoleInvInit, LampStart DEF ServicesInit
<1>2. Inv /\ [ServicesNext]_servicesVars => Inv'
  BY EachServiceSteps, FileStep, WorkInvStep, DmaStep, DmaRxStep, ConsoleInvStep, LampStep
<1>3. Inv => ServicesTypeOK
  BY FileInvTypes DEF ServicesTypeOK, WorkInv, DmaInv, DmaRxInv, ConsoleInv
<1> QED
  BY <1>1, <1>2, <1>3, PTL DEF ServicesSpec
=============================================================================
