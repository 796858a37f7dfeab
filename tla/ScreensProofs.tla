---------------------------- MODULE ScreensProofs ----------------------------
(* Proofs about what is on the screen and what brings it there.            *)
EXTENDS Loader, SessionManager, Pointing, Apps, NativeHost, PageWindows,
        FiniteSetTheorems, SequenceTheorems, WellFoundedInduction, TLAPS

(* A set of numbers that is not empty has a least one. *)
LEMMA LeastNat ==
    ASSUME NEW S, S \subseteq Nat, S # {}
    PROVE  \E n \in S : \A m \in S : n <= m
  <1> DEFINE R == OpToRel(<, Nat)
  <1>1. IsWellFoundedOn(R, Nat)
    BY NatLessThanWellFounded
  <1>2. \A x, y \in Nat : x < y => <<x, y>> \in R
    BY DEF OpToRel
  <1> HIDE DEF R
  <1>3. PICK x \in S : \A y \in S : ~ (<<y, x>> \in R)
    BY <1>1, WFMin
  <1>4. \A m \in S : x <= m
    <2> TAKE m \in S
    <2>1. ~(m < x)
      BY <1>2, <1>3
    <2> QED BY <2>1
  <1> QED BY <1>4

-----------------------------------------------------------------------------
(* The boot loader. *)

(* What is open and allocated at each point of the way into the kernel. *)
Tried == {"volume", "header", "phdrs", "read"}

Loaded == {"buffer", "map", "exit", "kernel"}

ImageOk ==
    /\ handles \subseteq IF at = "volume" THEN {"root_dir"}
                         ELSE IF at \in {"header", "phdrs", "read"} THEN both ELSE {}
    /\ pool \subseteq IF at = "read" THEN {"info", "phdrs"}
                      ELSE IF at \in {"map", "exit", "kernel", "failed"} THEN {"info", "mmap"}
                      ELSE {"info"}
    /\ at \in {"map", "exit", "kernel"} => "mmap" \in pool
    /\ at \in Tried \cup {"video", "menu", "protocols"} => pages \ {"back"} = {}
    /\ at = "paging" => pages \ {"back"} = {"kernel"}
    /\ at \in Loaded => pages \ {"back"} = {"kernel", "tables"}

(* The map the kernel is told of is the one whose key was used. *)
MapOk == /\ at \in {"exit", "kernel"} => memory_map = map_key
         /\ at = "kernel" => map_key = version

MenuOk == timer_active => selected_index = 0

(* Only the answer for a mode of the wanted size stays allocated. *)
AnswerOk == "info" \in pool => \E i \in DOMAIN display : display[i] = Target

(* All of these. *)
LoaderInv == ImageOk /\ MapOk /\ MenuOk /\ AnswerOk

(* The loader begins with nothing open. *)
LEMMA LoaderStarts == LoaderInit => LoaderInv
  BY DEF LoaderInit, LoaderInv, ImageOk, MapOk, MenuOk, AnswerOk, Tried, Loaded, both

(* A call that fails gives back what was taken for it. *)
LEMMA FailsKeeps ==
    ASSUME LoaderInv, NEW step, NEW closes, NEW frees, Fails(step, closes, frees),
           \/ step = "protocols"
           \/ step = "volume" /\ closes = {"root_dir"}
           \/ step \in {"header", "phdrs"} /\ closes = both
           \/ step = "read" /\ closes = both /\ frees = {"phdrs"}
    PROVE  LoaderInv'
  <1>1. /\ at = step /\ at' \in {"protocols", "failed"} /\ handles' = handles \ closes
        /\ pool' = pool \ frees
        /\ UNCHANGED <<display, mode, selected_index, timer_active, pages, version, map_key, memory_map>>
    BY DEF Fails, menuVars, mapVars
  <1>2. ImageOk' BY <1>1 DEF LoaderInv, ImageOk, Tried, Loaded, both
  <1>3. MapOk' BY <1>1 DEF MapOk
  <1>4. MenuOk' /\ AnswerOk' BY <1>1 DEF LoaderInv, MenuOk, AnswerOk
  <1> QED BY <1>2, <1>3, <1>4 DEF LoaderInv

(* A call that succeeds leaves what the next failure gives back. *)
LEMMA OpensKeeps ==
    ASSUME LoaderInv, NEW step, NEW next, NEW h, Opens(step, next, h),
           \/ step = "protocols" /\ next = "volume" /\ h = {"root_dir"}
           \/ step = "volume" /\ next = "header" /\ h = {"kernel_file"}
           \/ step = "header" /\ next = "phdrs" /\ h = {}
    PROVE  LoaderInv'
  <1>1. /\ at = step /\ at' = next /\ handles' = handles \cup h
        /\ UNCHANGED <<display, mode, selected_index, timer_active, pages, pool, version, map_key, memory_map>>
    BY DEF Opens, Goes, menuVars, mapVars
  <1>2. ImageOk' BY <1>1 DEF LoaderInv, ImageOk, Tried, Loaded, both
  <1>3. MapOk' BY <1>1 DEF MapOk
  <1>4. MenuOk' /\ AnswerOk' BY <1>1 DEF LoaderInv, MenuOk, AnswerOk
  <1> QED BY <1>2, <1>3, <1>4 DEF LoaderInv

(* Every step of load_kernel_file keeps the invariant. *)
LEMMA LoadKeeps == ASSUME LoaderInv, load_kernel_file PROVE LoaderInv'
  <1>1. ASSUME at = "phdrs", at' = "read", pool' = pool \cup {"phdrs"},
               UNCHANGED <<display, mode, menuVars, imageVars, mapVars>>
        PROVE  LoaderInv'
    <2>1. UNCHANGED <<display, mode, selected_index, timer_active, handles, pages, map_key, memory_map>>
      BY <1>1 DEF menuVars, imageVars, mapVars
    <2>2. ImageOk' BY <1>1, <2>1 DEF LoaderInv, ImageOk, Tried, Loaded, both
    <2>3. MapOk' BY <1>1 DEF MapOk
    <2>4. MenuOk' /\ AnswerOk' BY <1>1, <2>1 DEF LoaderInv, MenuOk, AnswerOk
    <2> QED BY <2>2, <2>3, <2>4 DEF LoaderInv
  <1>2. ASSUME at = "read", at' = "paging", handles' = {}, pool' = pool \ {"phdrs"},
               pages' = pages \cup {"kernel"},
               UNCHANGED <<display, mode, menuVars, path, mapVars>>
        PROVE  LoaderInv'
    <2>1. UNCHANGED <<display, mode, selected_index, timer_active, map_key, memory_map>>
      BY <1>2 DEF menuVars, mapVars
    <2>2. ImageOk' BY <1>2, <2>1 DEF LoaderInv, ImageOk, Tried, Loaded, both
    <2>3. MapOk' BY <1>2 DEF MapOk
    <2>4. MenuOk' /\ AnswerOk' BY <1>2, <2>1 DEF LoaderInv, MenuOk, AnswerOk
    <2> QED BY <2>2, <2>3, <2>4 DEF LoaderInv
  <1> QED BY <1>1, <1>2, FailsKeeps, OpensKeeps DEF load_kernel_file, Goes

(* Every step of the loader keeps the invariant. *)
LEMMA LoaderSteps == LoaderInv /\ [LoaderNext]_loaderVars => LoaderInv'
  <1> SUFFICES ASSUME LoaderInv, [LoaderNext]_loaderVars PROVE LoaderInv' OBVIOUS
  <1>1. ASSUME UNCHANGED display, "info" \in pool' => "info" \in pool PROVE AnswerOk'
    BY <1>1 DEF LoaderInv, AnswerOk
  <1>2. ASSUME UNCHANGED menuVars PROVE MenuOk' BY <1>2 DEF LoaderInv, MenuOk, menuVars
  <1>3. CASE UNCHANGED loaderVars
    BY <1>3 DEF loaderVars, menuVars, imageVars, mapVars, LoaderInv, ImageOk, MapOk, MenuOk, AnswerOk
  <1>4. CASE gop_init
    <2>1. ImageOk' BY <1>4 DEF gop_init, Goes, imageVars, LoaderInv, ImageOk, Tried, Loaded
    <2>2. MapOk' BY <1>4 DEF gop_init, Goes, MapOk
    <2>3. AnswerOk'
      <3>1. CASE pool' = pool BY <1>1, <1>4, <3>1 DEF gop_init
      <3>2. ASSUME NEW answered \in SUBSET DOMAIN display, Wanted(display, answered) # {} PROVE AnswerOk'
        <4>1. \E i \in DOMAIN display : display[i] = Target BY <3>2 DEF Wanted
        <4> QED BY <1>4, <4>1 DEF gop_init, AnswerOk
      <3> QED BY <1>4, <3>1, <3>2 DEF gop_init
    <2>4. MenuOk' BY <1>2, <1>4 DEF gop_init
    <2> QED BY <2>1, <2>2, <2>3, <2>4 DEF LoaderInv
  <1>5. CASE ui_run_boot_menu
    <2>1. PICK key \in Key :
             /\ selected_index' = (selected_index + (IF key = "up" THEN -1 ELSE
                                                     IF key = "down" THEN 1 ELSE 0)) % Entries
             /\ timer_active' = (timer_active /\ key = "none")
      BY <1>5 DEF ui_run_boot_menu
    <2>2. at = "menu" /\ at' \in {"menu", "reset", "protocols"} BY <1>5 DEF ui_run_boot_menu
    <2>3. UNCHANGED <<display, mode, imageVars, pool, mapVars, version>> BY <1>5 DEF ui_run_boot_menu
    <2>4. ImageOk' BY <2>2, <2>3 DEF imageVars, LoaderInv, ImageOk, Tried, Loaded
    <2>5. MapOk' BY <2>2 DEF MapOk
    <2>6. MenuOk'
      <3>1. SUFFICES ASSUME timer_active' PROVE selected_index' = 0 BY DEF MenuOk
      <3>2. timer_active /\ key = "none" BY <2>1, <3>1
      <3>3. selected_index = 0 BY <3>2 DEF LoaderInv, MenuOk
      <3>4. selected_index' = 0 % Entries BY <2>1, <3>2, <3>3
      <3> QED BY <3>4, LoaderAssumption
    <2> QED BY <1>1, <2>2, <2>3, <2>4, <2>5, <2>6 DEF LoaderInv
  <1>6. CASE setup_kernel_page_tables
    <2>1. ImageOk' BY <1>6 DEF setup_kernel_page_tables, LoaderInv, ImageOk, Tried, Loaded
    <2>2. MapOk' BY <1>6 DEF setup_kernel_page_tables, MapOk
    <2> QED BY <1>1, <1>2, <1>6, <2>1, <2>2 DEF setup_kernel_page_tables, LoaderInv
  <1>7. CASE AllocatePool
    <2>1. ImageOk' BY <1>7 DEF AllocatePool, LoaderInv, ImageOk, Tried, Loaded, imageVars
    <2>2. MapOk' BY <1>7 DEF AllocatePool, MapOk
    <2> QED BY <1>1, <1>2, <1>7, <2>1, <2>2 DEF AllocatePool, LoaderInv
  <1>8. CASE GetMemoryMap
    <2>1. ImageOk' BY <1>8 DEF GetMemoryMap, LoaderInv, ImageOk, Tried, Loaded, imageVars
    <2>2. MapOk' BY <1>8 DEF GetMemoryMap, MapOk
    <2> QED BY <1>1, <1>2, <1>8, <2>1, <2>2 DEF GetMemoryMap, LoaderInv
  <1>9. CASE ExitBootServices
    <2>1. ImageOk' BY <1>9 DEF ExitBootServices, LoaderInv, ImageOk, Tried, Loaded, imageVars
    <2>2. MapOk' BY <1>9 DEF ExitBootServices, LoaderInv, MapOk, mapVars
    <2> QED BY <1>1, <1>2, <1>9, <2>1, <2>2 DEF ExitBootServices, LoaderInv
  <1>10. CASE FirmwareEvent
    <2>1. ImageOk' BY <1>10 DEF FirmwareEvent, LoaderInv, ImageOk, Tried, Loaded, imageVars
    <2>2. MapOk' BY <1>10 DEF FirmwareEvent, LoaderInv, MapOk, mapVars
    <2> QED BY <1>1, <1>2, <1>10, <2>1, <2>2 DEF FirmwareEvent, LoaderInv
  <1> QED BY <1>3, <1>4, <1>5, <1>6, <1>7, <1>8, <1>9, <1>10, LoadKeeps DEF LoaderNext

(* Wherever the firmware's calls fail, those for the video mode included, and
   however often its memory map changes, for any lists of modes and any number
   of names, the loader leaves nothing open, of the pool only the map and the
   answer for the wanted mode, and the map it hands over is the last one
   (gop_init, load_kernel_file, EfiMain).                                   *)
THEOREM LoaderHandsOver == LoaderSpec => []HandsOver
  <1>1. ASSUME LoaderInv PROVE HandsOver
    <2>1. at \in {"protocols", "failed", "paging", "kernel"} =>
             handles = {} /\ pool \subseteq {"mmap", "info"}
      BY <1>1 DEF LoaderInv, ImageOk
    <2>2. at \in {"protocols", "paging"} => "mmap" \notin pool BY <1>1 DEF LoaderInv, ImageOk
    <2>3. at = "kernel" => memory_map = version /\ "mmap" \in pool /\ pages \ {"back"} = {"kernel", "tables"}
      BY <1>1 DEF LoaderInv, ImageOk, MapOk, Loaded
    <2>4. timer_active /\ at # "menu" => selected_index = 0 BY <1>1 DEF LoaderInv, MenuOk
    <2>5. "info" \in pool => \E i \in DOMAIN display : display[i] = Target
      BY <1>1 DEF LoaderInv, AnswerOk
    <2> QED BY <2>1, <2>2, <2>3, <2>4, <2>5 DEF HandsOver
  <1> QED BY <1>1, LoaderStarts, LoaderSteps, PTL DEF LoaderSpec

-----------------------------------------------------------------------------
(* The sessions of the system. *)

(* No session is given up: the first slots hold the sessions that were
   made, in order, and the others were never used.                          *)
Filled ==
    /\ next_session \in 1 .. MaxSessions + 1
    /\ sessions = [i \in SessionSlot |-> sessions[i]]
    /\ \A i \in SessionSlot : i < next_session =>
          sessions[i].id = i /\ sessions[i].token = i /\ sessions[i].status = "valid"
    /\ \A i \in SessionSlot : i >= next_session =>
          sessions[i].id = 0 /\ sessions[i].status = "expired"

(* What is due is the rest of what a thread makes sessions for. *)
DueOk ==
    /\ due \in [ThreadName -> Seq(Nat)]
    /\ \A t \in ThreadName :
          /\ Len(due[t]) <= Len(Processes[t])
          /\ \A j \in 1 .. Len(due[t]) : due[t][j] = Processes[t][Len(Processes[t]) - Len(due[t]) + j]

(* A process of the system has no session before its thread asks, then one. *)
Served(pid) == IF Made(pid) THEN IF pid \in refused THEN ValidOf(pid) = {}
                                 ELSE \E i \in SessionSlot : ValidOf(pid) = {i}
               ELSE ValidOf(pid) = {} /\ pid \notin refused

(* How far the log-on is. *)
LogonOk == /\ s_logon_state \in {"SUCCESS", "DESKTOP_READY"} => Behind(s_logon_state) \/ validated
           /\ point = [t \in ThreadName |-> point[t]]

(* All of these. *)
SmssInv == Filled /\ DueOk /\ (\A pid \in SystemPids : Served(pid)) /\ LogonOk

(* The threads' names, and what each makes sessions for. *)
LEMMA Threads ==
    /\ \A t \in ThreadName : Processes[t] \in Seq(Nat)
    /\ SystemThread \subseteq ThreadName
    /\ {"kernel", "smss", "winlogon", "userinit"} \subseteq ThreadName
    /\ "winlogon" \notin DOMAIN Session0 \cup {"kernel", "smss", "userinit"}
    /\ Processes["smss"] = << >> /\ Processes["kernel"] = <<0, 1>>
  <1>1. /\ SystemThread \subseteq ThreadName
        /\ {"kernel", "smss", "winlogon", "userinit"} \subseteq ThreadName
        /\ "winlogon" \notin DOMAIN Session0 \cup {"kernel", "smss", "userinit"}
    BY SessionManagerAssumption DEF SystemThread, ThreadName
  <1>2. Processes["smss"] = << >> /\ Processes["kernel"] = <<0, 1>>
    BY SessionManagerAssumption, <1>1 DEF Processes
  <1>3. ASSUME NEW t \in ThreadName PROVE Processes[t] \in Seq(Nat)
    <2>1. CASE t \in {"kernel", "smss"}
      <3>1. << >> \in Seq(Nat) /\ <<0, 1>> \in Seq(Nat) OBVIOUS
      <3> QED BY <1>2, <2>1, <3>1
    <2>2. CASE t \in DOMAIN Session0
      <3>1. t \notin {"kernel", "smss"} BY <2>2, SessionManagerAssumption
      <3>2. Processes[t] = Session0[t] BY <2>2, <3>1, SessionManagerAssumption DEF Processes
      <3> QED BY <2>2, <3>2, SessionManagerAssumption
    <2>3. CASE t \in DOMAIN Session1
      <3>1. t \notin {"kernel", "smss"} /\ t \notin DOMAIN Session0
        BY <2>3, SessionManagerAssumption
      <3>2. Processes[t] = Session1[t] BY <2>3, <3>1 DEF Processes
      <3> QED BY <2>3, <3>2, SessionManagerAssumption
    <2> QED BY <2>1, <2>2, <2>3 DEF ThreadName
  <1> QED BY <1>1, <1>2, <1>3

(* A new session goes into the first slot never used. *)
LEMMA CreateIs ==
    ASSUME Filled, NEW pid, session_create(pid)
    PROVE  /\ Filled'
           /\ next_session \in SessionSlot
           /\ \A p : /\ next_session \notin ValidOf(p)
                     /\ ValidOf(p)' = IF p = pid THEN ValidOf(p) \cup {next_session} ELSE ValidOf(p)
  <1> DEFINE n == next_session
             r == [id |-> n, pid |-> pid, token |-> n, status |-> "valid", attempts |-> 0]
  <1>1. MaxSessions \in Nat \ {0} BY SessionAssumption
  <1>2. PICK i \in SessionSlot :
           /\ Reusable(sessions[i])
           /\ \A j \in 1 .. i - 1 : ~Reusable(sessions[j])
           /\ sessions' = [sessions EXCEPT ![i] = r]
    BY DEF session_create
  <1>3. n \in 1 .. MaxSessions + 1 BY DEF Filled
  <1>4. i = n
    <2>1. ~(i < n) BY <1>1, <1>2, <1>3 DEF Filled, Reusable, SessionSlot
    <2>2. ~(n < i)
      <3>1. SUFFICES ASSUME n < i PROVE FALSE OBVIOUS
      <3>2. n \in SessionSlot /\ n \in 1 .. i - 1 BY <1>1, <1>3, <3>1 DEF SessionSlot
      <3>3. sessions[n].status = "expired" BY <1>3, <3>2 DEF Filled
      <3> QED BY <1>2, <3>2, <3>3 DEF Reusable
    <2> QED BY <1>1, <1>3, <2>1, <2>2 DEF SessionSlot
  <1>5. n \in SessionSlot BY <1>2, <1>4
  <1>6. sessions' = [sessions EXCEPT ![n] = r] /\ next_session' = n + 1 BY <1>2, <1>4 DEF session_create
  <1>7. r.id = n /\ r.pid = pid /\ r.token = n /\ r.status = "valid" OBVIOUS
  <1> HIDE DEF r
  <1>8. /\ sessions' = [j \in SessionSlot |-> sessions'[j]]
        /\ \A j \in SessionSlot : sessions'[j] = IF j = n THEN r ELSE sessions[j]
    BY <1>6 DEF Filled
  <1>9. n \in Nat /\ n <= MaxSessions BY <1>1, <1>5 DEF SessionSlot
  <1>10. Filled'
    <2>1. next_session' \in 1 .. MaxSessions + 1 BY <1>1, <1>6, <1>9
    <2>2. ASSUME NEW j \in SessionSlot, j < n + 1
          PROVE  sessions'[j].id = j /\ sessions'[j].token = j /\ sessions'[j].status = "valid"
      <3>1. CASE j = n BY <1>7, <1>8, <3>1
      <3>2. CASE j # n
        <4>1. j < n BY <1>9, <2>2, <3>2 DEF SessionSlot
        <4> QED BY <1>8, <3>2, <4>1 DEF Filled
      <3> QED BY <3>1, <3>2
    <2>3. ASSUME NEW j \in SessionSlot, j >= n + 1
          PROVE  sessions'[j].id = 0 /\ sessions'[j].status = "expired"
      <3>1. j >= n /\ j # n BY <1>9, <2>3 DEF SessionSlot
      <3> QED BY <1>8, <3>1 DEF Filled
    <2> QED BY <1>6, <1>8, <2>1, <2>2, <2>3 DEF Filled
  <1>11. sessions[n].status = "expired" BY <1>5, <1>9 DEF Filled
  <1>12. ASSUME NEW p
         PROVE  /\ n \notin ValidOf(p)
                /\ ValidOf(p)' = IF p = pid THEN ValidOf(p) \cup {n} ELSE ValidOf(p)
    BY <1>5, <1>7, <1>8, <1>11 DEF ValidOf
  <1> QED BY <1>5, <1>10, <1>12

(* Where a thread is in its list: the next process is none it, or another
   thread of the system, was there for before.                              *)
LEMMA NextDue ==
    ASSUME DueOk, NEW t \in ThreadName, due[t] # << >>, due' = [due EXCEPT ![t] = Tail(@)]
    PROVE  /\ DueOk'
           /\ t \in SystemThread => Head(due[t]) \in SystemPids /\ ~Made(Head(due[t]))
           /\ t \notin SystemThread => Head(due[t]) \notin SystemPids
           /\ \A p \in SystemPids : Made(p)' <=> Made(p) \/ p = Head(due[t])
  <1> DEFINE k == Len(Processes[t]) - Len(due[t]) + 1
             h == Head(due[t])
  <1>1. due[t] \in Seq(Nat) /\ Processes[t] \in Seq(Nat) BY Threads DEF DueOk
  <1>2. /\ Len(due[t]) \in Nat /\ Len(due[t]) > 0 /\ Len(Processes[t]) \in Nat
        /\ h = due[t][1] /\ Tail(due[t]) \in Seq(Nat) /\ Len(Tail(due[t])) = Len(due[t]) - 1
        /\ \A j \in 1 .. Len(due[t]) - 1 : Tail(due[t])[j] = due[t][j + 1]
    BY <1>1, LenProperties, EmptySeq, HeadTailProperties
  <1>3. Len(due[t]) <= Len(Processes[t])
        /\ \A j \in 1 .. Len(due[t]) : due[t][j] = Processes[t][Len(Processes[t]) - Len(due[t]) + j]
    BY DEF DueOk
  <1>4. k \in 1 .. Len(Processes[t]) /\ Processes[t][k] = h
    <2>1. 1 \in 1 .. Len(due[t]) BY <1>2
    <2>2. due[t][1] = Processes[t][Len(Processes[t]) - Len(due[t]) + 1] BY <1>3, <2>1
    <2>3. k \in 1 .. Len(Processes[t])
      <3> DEFINE P == Len(Processes[t])  L == Len(due[t])
      <3>1. P \in Nat /\ L \in Nat /\ L > 0 /\ L <= P BY <1>2, <1>3
      <3> HIDE DEF P, L
      <3>2. P - L + 1 \in 1 .. P BY <3>1
      <3> QED BY <3>2 DEF P, L
    <2> QED BY <1>2, <2>2, <2>3
  <1>5. due' \in [ThreadName -> Seq(Nat)] /\ due'[t] = Tail(due[t])
        /\ \A u \in ThreadName \ {t} : due'[u] = due[u]
    BY <1>2 DEF DueOk
  <1>6. DueOk'
    <2>1. ASSUME NEW j \in 1 .. Len(due'[t])
          PROVE  due'[t][j] = Processes[t][Len(Processes[t]) - Len(due'[t]) + j]
      <3>1. j \in 1 .. Len(due[t]) - 1 /\ j + 1 \in 1 .. Len(due[t]) BY <1>2, <1>5, <2>1
      <3>2. due'[t][j] = due[t][j + 1] BY <1>2, <1>5, <3>1
      <3>3. due[t][j + 1] = Processes[t][Len(Processes[t]) - Len(due[t]) + (j + 1)] BY <1>3, <3>1
      <3>4. Len(Processes[t]) - Len(due[t]) + (j + 1) = Len(Processes[t]) - Len(due'[t]) + j
        <4> DEFINE P == Len(Processes[t])  L == Len(due[t])  M == Len(due'[t])
        <4>1. P \in Nat /\ L \in Nat /\ M = L - 1 /\ j \in Int BY <1>2, <1>5, <3>1
        <4> HIDE DEF P, L, M
        <4>2. P - L + (j + 1) = P - M + j BY <4>1
        <4> QED BY <4>2 DEF P, L, M
      <3> QED BY <3>2, <3>3, <3>4
    <2>2. Len(due'[t]) <= Len(Processes[t]) BY <1>2, <1>3, <1>5
    <2>3. ASSUME NEW u \in ThreadName
          PROVE  /\ Len(due'[u]) <= Len(Processes[u])
                 /\ \A j \in 1 .. Len(due'[u]) : due'[u][j] = Processes[u][Len(Processes[u]) - Len(due'[u]) + j]
      <3>1. CASE u = t BY <2>1, <2>2, <3>1
      <3>2. CASE u # t BY <1>5, <3>2 DEF DueOk
      <3> QED BY <3>1, <3>2
    <2> QED BY <1>5, <2>3 DEF DueOk
  <1>7. \A u \in ThreadName : Processes[u] \in Seq(Nat) /\ Len(Processes[u]) \in Nat
                              /\ DOMAIN Processes[u] = 1 .. Len(Processes[u])
                              /\ Len(due[u]) \in Nat
    BY Threads, LenProperties DEF DueOk
  <1>8. ASSUME t \in SystemThread PROVE h \in SystemPids /\ ~Made(h)
    <2>0. t \in ThreadName /\ k \in DOMAIN Processes[t] BY <1>4, <1>7
    <2>1. h \in SystemPids
      <3> HIDE DEF k, h
      <3>1. h \in {Processes[t][i] : i \in DOMAIN Processes[t]} BY <1>4, <2>0
      <3> QED BY <1>8, <3>1 DEF SystemPids
    <2>2. SUFFICES ASSUME Made(h) PROVE FALSE BY <2>1
    <2>3. PICK u \in ThreadName : \E i \in 1 .. Len(Processes[u]) - Len(due[u]) : Processes[u][i] = h
      BY <2>2 DEF Made
    <2>4. PICK i \in 1 .. Len(Processes[u]) - Len(due[u]) : Processes[u][i] = h BY <2>3
    <2>5. i \in 1 .. Len(Processes[u]) BY <1>7, <2>4
    <2>6. CASE u \in SystemThread
      <3>1. u = t /\ i = k
        <4>1. i \in DOMAIN Processes[u] /\ Processes[u][i] = Processes[t][k]
          BY <1>4, <1>7, <2>4, <2>5
        <4> HIDE DEF k
        <4> QED BY <1>8, <2>0, <2>6, <4>1, NumbersAssumption
      <3> QED BY <1>2, <2>4, <3>1
    <2>7. CASE u \notin SystemThread
      <3>1. u \in {"kernel", "smss"} BY <2>7 DEF ThreadName, SystemThread
      <3>2. u = "kernel"
        <4>1. Len(Processes["smss"]) = 0 BY Threads, EmptySeq
        <4> QED BY <2>5, <3>1, <4>1
      <3>3. h \in {0, 1}
        <4>1. Len(<<0, 1>>) = 2 OBVIOUS
        <4>2. i \in {1, 2} BY <2>5, <3>2, <4>1, Threads
        <4> QED BY <2>4, <3>2, <4>2, Threads
      <3> QED BY <2>1, <3>3, NumbersAssumption
    <2> QED BY <2>6, <2>7
  <1>9. ASSUME t \notin SystemThread PROVE h \notin SystemPids
    <2>1. t \in {"kernel", "smss"} BY <1>9 DEF ThreadName, SystemThread
    <2>2. t = "kernel"
      <3>1. Len(Processes["smss"]) = 0 BY Threads, EmptySeq
      <3> QED BY <1>4, <2>1, <3>1
    <2>3. Len(<<0, 1>>) = 2 OBVIOUS
    <2>4. k \in {1, 2}
      <3>1. Len(Processes[t]) = 2 BY <2>2, <2>3, Threads
      <3>2. k \in 1 .. 2 BY <1>4, <3>1
      <3> HIDE DEF k
      <3> QED BY <3>2
    <2>5. h \in {0, 1} BY <1>4, <2>2, <2>4, Threads
    <2> QED BY <2>5, NumbersAssumption
  <1>10. ASSUME NEW p PROVE Made(p)' <=> Made(p) \/ p = h
    <2> DEFINE has(u) == \E i \in 1 .. Len(Processes[u]) - Len(due[u]) : Processes[u][i] = p
               had(u) == \E i \in 1 .. Len(Processes[u]) - Len(due'[u]) : Processes[u][i] = p
    <2>1. \A u \in ThreadName \ {t} : had(u) <=> has(u) BY <1>5
    <2>2. had(t) <=> has(t) \/ p = h
      <3>1. 1 .. Len(Processes[t]) - Len(due'[t]) = (1 .. Len(Processes[t]) - Len(due[t])) \cup {k}
        BY <1>2, <1>3, <1>5
      <3> QED BY <1>4, <3>1
    <2>3. Made(p) <=> \E u \in ThreadName : has(u) BY DEF Made
    <2>4. Made(p)' <=> \E u \in ThreadName : had(u) BY DEF Made
    <2> HIDE DEF has, had
    <2> QED BY <2>1, <2>2, <2>3, <2>4
  <1> QED BY <1>6, <1>8, <1>9, <1>10

(* A thread of the system makes a session, or the table is full. *)
LEMMA CreatesKeep == ASSUME SmssInv, NEW t \in ThreadName, Creates(t) PROVE SmssInv'
  <1> DEFINE h == Head(due[t])
  <1>1. /\ Filled /\ DueOk /\ LogonOk /\ (\A p \in SystemPids : Served(p))
        /\ due[t] # << >> /\ due' = [due EXCEPT ![t] = Tail(@)]
        /\ UNCHANGED <<point, s_logon_state, validated>>
    BY DEF SmssInv, Creates
  <1>2. /\ DueOk'
        /\ t \in SystemThread => h \in SystemPids /\ ~Made(h)
        /\ t \notin SystemThread => h \notin SystemPids
        /\ \A p \in SystemPids : Made(p)' <=> Made(p) \/ p = h
    BY <1>1, NextDue
  <1> HIDE DEF h
  <1>3. LogonOk' BY <1>1 DEF LogonOk, Behind
  <1>4. CASE session_create(h) /\ UNCHANGED refused
    <2>1. /\ Filled' /\ next_session \in SessionSlot
          /\ \A p : /\ next_session \notin ValidOf(p)
                    /\ ValidOf(p)' = IF p = h THEN ValidOf(p) \cup {next_session} ELSE ValidOf(p)
      BY <1>1, <1>4, CreateIs
    <2>2. ASSUME NEW p \in SystemPids PROVE Served(p)'
      <3>1. CASE p = h
        <4>1. ~Made(p) /\ Made(p)' BY <1>2, <3>1
        <4>2. ValidOf(p) = {} /\ p \notin refused BY <1>1, <4>1 DEF Served
        <4>3. ValidOf(p)' = {next_session} /\ p \notin refused' BY <1>4, <2>1, <3>1, <4>2
        <4> QED BY <2>1, <4>1, <4>3 DEF Served
      <3>2. CASE p # h
        <4>1. (Made(p)' <=> Made(p)) /\ ValidOf(p)' = ValidOf(p) /\ refused' = refused
          BY <1>2, <1>4, <2>1, <3>2
        <4> QED BY <1>1, <4>1 DEF Served
      <3> QED BY <3>1, <3>2
    <2> QED BY <1>2, <1>3, <2>1, <2>2 DEF SmssInv
  <1>5. CASE UNCHANGED sessionVars /\ refused' = refused \cup {h}
    <2>1. sessions' = sessions /\ next_session' = next_session BY <1>5 DEF sessionVars
    <2>2. Filled' BY <1>1, <2>1 DEF Filled
    <2>3. \A p : ValidOf(p)' = ValidOf(p) BY <2>1 DEF ValidOf
    <2>4. ASSUME NEW p \in SystemPids PROVE Served(p)'
      <3>1. CASE p = h
        <4>1. ~Made(p) /\ Made(p)' BY <1>2, <3>1
        <4>2. ValidOf(p) = {} BY <1>1, <4>1 DEF Served
        <4>3. ValidOf(p)' = {} /\ p \in refused' BY <1>5, <2>3, <3>1, <4>2
        <4> QED BY <4>1, <4>3 DEF Served
      <3>2. CASE p # h
        <4>1. (Made(p)' <=> Made(p)) /\ ValidOf(p)' = ValidOf(p) /\ (p \in refused' <=> p \in refused)
          BY <1>2, <1>5, <2>3, <3>2
        <4> QED BY <1>1, <4>1 DEF Served
      <3> QED BY <3>1, <3>2
    <2> QED BY <1>2, <1>3, <2>2, <2>4 DEF SmssInv
  <1> QED BY <1>4, <1>5 DEF Creates, h

(* Whatever leaves the table, the lists and the refusals alone. *)
LEMMA TableRestsSm ==
    ASSUME SmssInv, UNCHANGED <<sessions, next_session, due, refused>>
    PROVE  Filled' /\ DueOk' /\ (\A p \in SystemPids : Served(p)')
  <1>1. Filled' BY DEF SmssInv, Filled
  <1>2. DueOk' BY DEF SmssInv, DueOk
  <1>3. \A p : ValidOf(p)' = ValidOf(p) /\ (Made(p)' <=> Made(p)) BY DEF ValidOf, Made
  <1>4. ASSUME NEW p \in SystemPids PROVE Served(p)' BY <1>3 DEF SmssInv, Served
  <1> QED BY <1>1, <1>2, <1>4

(* Other processes make sessions. *)
LEMMA OthersKeep == ASSUME SmssInv, OthersCreate PROVE SmssInv'
  <1>1. PICK pid \in Pid \ {Kernel} : session_create(pid) BY DEF OthersCreate
  <1>2. /\ Filled'
        /\ \A p : ValidOf(p)' = IF p = pid THEN ValidOf(p) \cup {next_session} ELSE ValidOf(p)
    BY <1>1, CreateIs DEF SmssInv
  <1>3. UNCHANGED <<point, due, refused, s_logon_state, validated>> BY DEF OthersCreate
  <1>4. DueOk' /\ LogonOk' BY <1>3 DEF SmssInv, DueOk, LogonOk, Behind
  <1>5. ASSUME NEW p \in SystemPids PROVE Served(p)'
    <2>1. p # pid BY <1>1, NumbersAssumption
    <2>2. ValidOf(p)' = ValidOf(p) BY <1>2, <2>1
    <2>3. Made(p)' <=> Made(p) BY <1>3 DEF Made
    <2> QED BY <1>3, <2>2, <2>3 DEF SmssInv, Served
  <1> QED BY <1>2, <1>4, <1>5 DEF SmssInv

(* No session has the number userinit gives up: the table is full before. *)
LEMMA NothingRevoked == ASSUME Filled, NEW i \in SessionSlot PROVE sessions[i].id # Revoked
  <1>1. MaxSessions \in Nat /\ Revoked \in Nat /\ MaxSessions < Revoked /\ MaxSessions # 0
    BY SessionAssumption, SessionManagerAssumption, NumbersAssumption
  <1>2. i \in Nat /\ i <= MaxSessions /\ next_session \in Nat
    BY <1>1 DEF SessionSlot, Filled
  <1>3. sessions[i].id \in {0, i} BY <1>2 DEF Filled
  <1> QED BY <1>1, <1>2, <1>3

(* No session at first. *)
LEMMA SmssStarts == SmssInit => SmssInv
  <1> SUFFICES ASSUME SmssInit PROVE SmssInv OBVIOUS
  <1>1. Filled
    <2>1. next_session = 1 /\ MaxSessions \in Nat \ {0} BY SessionAssumption DEF SmssInit, security_init
    <2>2. sessions = [i \in SessionSlot |-> sessions[i]]
          /\ \A i \in SessionSlot : sessions[i].id = 0 /\ sessions[i].status = "expired"
      BY DEF SmssInit, security_init
    <2>3. \A i \in SessionSlot : ~(i < next_session) BY <2>1 DEF SessionSlot
    <2> QED BY <2>1, <2>2, <2>3 DEF Filled
  <1>2. DueOk
    <2>0. \E f : Processes = [t \in ThreadName |-> f[t]]
      <3> DEFINE e(t) == CASE t = "kernel" -> <<0, 1>> [] t = "smss" -> << >>
                           [] t \in DOMAIN Session0 -> Session0[t]
                           [] t \in DOMAIN Session1 -> Session1[t]
      <3>1. Processes = [t \in ThreadName |-> e(t)] BY DEF Processes
      <3> HIDE DEF e
      <3>2. Processes = [t \in ThreadName |-> Processes[t]] BY <3>1
      <3> QED BY <3>2
    <2>1. due = Processes /\ Processes = [t \in ThreadName |-> Processes[t]]
      BY <2>0 DEF SmssInit
    <2>2. due \in [ThreadName -> Seq(Nat)] BY <2>1, Threads
    <2>3. ASSUME NEW t \in ThreadName
          PROVE  /\ Len(due[t]) <= Len(Processes[t])
                 /\ \A j \in 1 .. Len(due[t]) : due[t][j] = Processes[t][Len(Processes[t]) - Len(due[t]) + j]
      <3>1. due[t] = Processes[t] /\ Len(Processes[t]) \in Nat BY <2>1, Threads, LenProperties
      <3> DEFINE L == Len(Processes[t])
      <3>2. \A j \in 1 .. L : L - L + j = j BY <3>1
      <3> HIDE DEF L
      <3>3. L <= L BY <3>1 DEF L
      <3> QED BY <3>1, <3>2, <3>3 DEF L
    <2> QED BY <2>2, <2>3 DEF DueOk
  <1>3. ASSUME NEW p \in SystemPids PROVE Served(p)
    <2>1. ~Made(p)
      <3>1. \A t \in ThreadName : Len(Processes[t]) \in Nat /\ due[t] = Processes[t]
        BY Threads, LenProperties DEF SmssInit
      <3>2. ASSUME NEW t \in ThreadName PROVE 1 .. Len(Processes[t]) - Len(due[t]) = {}
        <4> DEFINE L == Len(Processes[t])
        <4>1. L \in Nat /\ Len(due[t]) = L BY <3>1
        <4> HIDE DEF L
        <4>2. 1 .. L - L = {} BY <4>1
        <4> QED BY <4>1, <4>2 DEF L
      <3> QED BY <3>2 DEF Made
    <2>2. ValidOf(p) = {} BY DEF ValidOf, SmssInit, security_init
    <2> QED BY <2>1, <2>2 DEF Served, SmssInit
  <1>4. LogonOk BY DEF LogonOk, SmssInit
  <1> QED BY <1>1, <1>2, <1>3, <1>4 DEF SmssInv

(* Every step of every thread keeps the invariant. *)
LEMMA SmssSteps == SmssInv /\ [SmssNext]_smssVars => SmssInv'
  <1> SUFFICES ASSUME SmssInv, [SmssNext]_smssVars PROVE SmssInv' OBVIOUS
  <1>1. ASSUME UNCHANGED sessionVars, UNCHANGED <<due, refused>>, LogonOk' PROVE SmssInv'
    BY <1>1, TableRestsSm DEF sessionVars, SmssInv
  <1>2. LogonOk /\ Filled BY DEF SmssInv
  <1>3. CASE UNCHANGED smssVars
    BY <1>1, <1>2, <1>3 DEF smssVars, LogonOk, Behind
  <1>4. ASSUME NEW threads, Starts(threads), UNCHANGED <<s_logon_state, validated>>,
               "winlogon" \notin threads \/ point["winlogon"] = "none"
        PROVE  LogonOk'
    <2>1. point' = [t \in ThreadName |-> point'[t]] BY <1>4 DEF Starts
    <2>2. CASE "winlogon" \notin threads
      <3>1. point'["winlogon"] = point["winlogon"] BY <1>4, <2>2, Threads DEF Starts
      <3> QED BY <1>2, <1>4, <2>1, <3>1 DEF LogonOk, Behind
    <2>3. CASE point["winlogon"] = "none"
      <3>1. s_logon_state \in {"SUCCESS", "DESKTOP_READY"} => validated
        BY <1>2, <2>3 DEF LogonOk, Behind
      <3> QED BY <1>4, <2>1, <3>1 DEF LogonOk
    <2> QED BY <1>4, <2>2, <2>3
  <1>5. CASE kmain
    <2>1. LogonOk' BY <1>4, <1>5, Threads DEF kmain, RestIsKept
    <2> QED BY <1>1, <1>5, <2>1 DEF kmain, RestIsKept, sessionVars
  <1>6. CASE session_0_init
    <2>1. LogonOk' BY <1>4, <1>6, Threads DEF session_0_init, RestIsKept
    <2> QED BY <1>1, <1>6, <2>1 DEF session_0_init, RestIsKept, sessionVars
  <1>7. CASE session_1_init
    <2>1. LogonOk' BY <1>4, <1>7 DEF session_1_init, RestIsKept
    <2> QED BY <1>1, <1>7, <2>1 DEF session_1_init, RestIsKept, sessionVars
  <1>8. CASE winlogon_thread
    <2>1. ASSUME NEW from, NEW to, NEW state, WinlogonSays(from, to, state),
                 \/ state \in {"CREDENTIAL_UI", "VALIDATING"}
                 \/ state = "SUCCESS" /\ to = "logs on"
                 \/ state = "DESKTOP_READY" /\ to = "watches"
          PROVE  SmssInv'
      <3>1. /\ point' = [point EXCEPT !["winlogon"] = to] /\ s_logon_state' = state
            /\ UNCHANGED sessionVars /\ UNCHANGED <<due, refused>>
        BY <2>1 DEF WinlogonSays, Reaches, sessionVars
      <3>2. point' = [t \in ThreadName |-> point'[t]] /\ point'["winlogon"] = to
        BY <1>2, <3>1, Threads DEF LogonOk
      <3>3. s_logon_state' \in {"SUCCESS", "DESKTOP_READY"} => Behind(s_logon_state)'
        <4>1. CASE state \in {"CREDENTIAL_UI", "VALIDATING"} BY <3>1, <4>1
        <4>2. CASE state = "SUCCESS" /\ to = "logs on"
          <5>1. s_logon_state' = "SUCCESS" /\ point'["winlogon"] \in {"logs on", "watches"}
            BY <3>1, <3>2, <4>2
          <5> QED BY <5>1 DEF Behind
        <4>3. CASE state = "DESKTOP_READY" /\ to = "watches" BY <3>1, <3>2, <4>3 DEF Behind
        <4> QED BY <2>1, <4>1, <4>2, <4>3
      <3>4. LogonOk' BY <3>2, <3>3 DEF LogonOk
      <3> QED BY <1>1, <3>1, <3>4
    <2> QED BY <1>8, <2>1 DEF winlogon_thread
  <1>9. CASE userinit_thread
    <2>1. UNCHANGED sessionVars BY <1>2, <1>9, NothingRevoked DEF userinit_thread
    <2>2. /\ point' = [point EXCEPT !["userinit"] = "ended"]
          /\ UNCHANGED <<due, refused, s_logon_state, validated>>
      BY <1>9 DEF userinit_thread, Reaches, RestIsKept
    <2>3. point' = [t \in ThreadName |-> point'[t]] /\ point'["winlogon"] = point["winlogon"]
      BY <1>2, <2>2, Threads DEF LogonOk
    <2>4. LogonOk' BY <1>2, <2>2, <2>3 DEF LogonOk, Behind
    <2> QED BY <1>1, <2>1, <2>2, <2>4
  <1>10. CASE smss_validate_credentials
    <2>1. LogonOk' BY <1>2, <1>10 DEF smss_validate_credentials, LogonOk
    <2> QED BY <1>1, <1>10, <2>1 DEF smss_validate_credentials, sessionVars
  <1> QED BY <1>3, <1>5, <1>6, <1>7, <1>8, <1>9, <1>10, CreatesKeep, OthersKeep DEF SmssNext

(* In every order of the threads, for a table and a system of any size, each
   process of the system keeps the session it was given, with its token: the
   number that userinit revokes is beyond the numbers a table that is never
   freed can give (smss.c, session.c). *)
THEOREM SystemSessionsStay == SmssSpec => []SystemSessionsStand
  <1>1. ASSUME SmssInv PROVE SystemSessionsStand
    <2>1. ASSUME NEW p \in SystemPids, Made(p)
          PROVE  Cardinality(ValidOf(p)) = (IF p \in refused THEN 0 ELSE 1)
      <3>1. CASE p \in refused
        <4>1. ValidOf(p) = {} BY <1>1, <2>1, <3>1 DEF SmssInv, Served
        <4> QED BY <3>1, <4>1, FS_EmptySet
      <3>2. CASE p \notin refused
        <4>1. PICK i \in SessionSlot : ValidOf(p) = {i} BY <1>1, <2>1, <3>2 DEF SmssInv, Served
        <4>2. Cardinality({i}) = 1 BY FS_Singleton
        <4> QED BY <3>2, <4>1, <4>2
      <3> QED BY <3>1, <3>2
    <2>2. ASSUME NEW i \in SessionSlot, sessions[i].status = "valid" PROVE sessions[i].token # 0
      <3>1. i \in Nat /\ i # 0 /\ next_session \in Nat
        BY <1>1, SessionAssumption DEF SessionSlot, SmssInv, Filled
      <3>2. i < next_session
        <4>1. ~(i >= next_session) BY <1>1, <2>2 DEF SmssInv, Filled
        <4> QED BY <3>1, <4>1
      <3>3. sessions[i].token = i BY <1>1, <3>2 DEF SmssInv, Filled
      <3> QED BY <3>1, <3>3
    <2>3. s_logon_state \in {"SUCCESS", "DESKTOP_READY"} => Behind(s_logon_state) \/ validated
      BY <1>1 DEF SmssInv, LogonOk
    <2> QED BY <2>1, <2>2, <2>3 DEF SystemSessionsStand
  <1> QED BY <1>1, SmssStarts, SmssSteps, PTL DEF SmssSpec

-----------------------------------------------------------------------------
(* The windows of the in-kernel compositor. *)

(* A table as the code can hold it. *)
TableType == [tag : [WinSlot -> App \cup {Nothing}], z : [WinSlot -> Nat],
              focused : [WinSlot -> BOOLEAN], minimized : [WinSlot -> BOOLEAN],
              count : Nat, browser : WinSlot \cup {Nothing}]

Rec(t, z, f, m, c, b) == [tag |-> t, z |-> z, focused |-> f, minimized |-> m, count |-> c, browser |-> b]

(* A table is made of its fields, ... *)
LEMMA RecIs == ASSUME NEW W \in TableType
  PROVE W = Rec(W.tag, W.z, W.focused, W.minimized, W.count, W.browser)
  BY DEF TableType, Rec

(* ... and each assignment changes one of them: the application, ... *)
LEMMA SetTag == \A t, z, f, m, c, b, s, v : [Rec(t, z, f, m, c, b) EXCEPT !.tag[s] = v] = Rec([t EXCEPT ![s] = v], z, f, m, c, b)
  BY DEF Rec

(* ... the height, ... *)
LEMMA SetZ == \A t, z, f, m, c, b, s, v : [Rec(t, z, f, m, c, b) EXCEPT !.z[s] = v] = Rec(t, [z EXCEPT ![s] = v], f, m, c, b)
  BY DEF Rec

Rising(W, s, v) == [W EXCEPT !.z[s] = v]

(* ... which one assignment changes, ... *)
LEMMA RisingIs == ASSUME NEW t, NEW z, NEW f, NEW m, NEW c, NEW b, NEW s, NEW v
  PROVE Rising(Rec(t, z, f, m, c, b), s, v) = Rec(t, [z EXCEPT ![s] = v], f, m, c, b)
  BY DEF Rec, Rising

(* ... the focus of a slot, ... *)
LEMMA SetFocused == \A t, z, f, m, c, b, s, v : [Rec(t, z, f, m, c, b) EXCEPT !.focused[s] = v] = Rec(t, z, [f EXCEPT ![s] = v], m, c, b)
  BY DEF Rec

(* ... whether it is minimized, ... *)
LEMMA SetMinimized == \A t, z, f, m, c, b, s, v : [Rec(t, z, f, m, c, b) EXCEPT !.minimized[s] = v] = Rec(t, z, f, [m EXCEPT ![s] = v], c, b)
  BY DEF Rec

(* ... how many there are, ... *)
LEMMA SetCount == \A t, z, f, m, c, b, v : [Rec(t, z, f, m, c, b) EXCEPT !.count = v] = Rec(t, z, f, m, v, b)
  BY DEF Rec

(* ... every slot's focus, ... *)
LEMMA SetFocus == \A t, z, f, m, c, b, v : [Rec(t, z, f, m, c, b) EXCEPT !.focused = v] = Rec(t, z, v, m, c, b)
  BY DEF Rec

(* ... and the browser's slot. *)
LEMMA SetBrowser == \A t, z, f, m, c, b, v : [Rec(t, z, f, m, c, b) EXCEPT !.browser = v] = Rec(t, z, f, m, c, v)
  BY DEF Rec

(* window_focus, field by field. *)
LEMMA FocusIs == ASSUME NEW W \in TableType, NEW s
  PROVE window_focus(W, s) = Rec(W.tag, [W.z EXCEPT ![s] = MaxZIn(W) + 1],
        [i \in WinSlot |-> i = s \/ (W.focused[i] /\ W.tag[i] = Nothing)],
        [W.minimized EXCEPT ![s] = FALSE], W.count, W.browser)
  <1> DEFINE f == [i \in WinSlot |-> i = s \/ (W.focused[i] /\ W.tag[i] = Nothing)]
             z == MaxZIn(W) + 1
             no == FALSE
             m1 == [W.minimized EXCEPT ![s] = no]
             W1 == [W EXCEPT !.focused = f]
             W2 == [W1 EXCEPT !.minimized[s] = no]
             W3 == [W2 EXCEPT !.z[s] = z]
  <1>1. window_focus(W, s) = [W EXCEPT !.focused = f, !.minimized[s] = no, !.z[s] = z]
    BY DEF window_focus
  <1> HIDE DEF f, z, no
  <1>2. [W EXCEPT !.focused = f, !.minimized[s] = no, !.z[s] = z] = W3
    OBVIOUS
  <1>3. W1 = Rec(W.tag, W.z, f, W.minimized, W.count, W.browser)
    BY RecIs, SetFocus
  <1> HIDE DEF W1
  <1>4. W2 = Rec(W.tag, W.z, f, m1, W.count, W.browser)
    BY <1>3, SetMinimized
  <1> HIDE DEF W2, m1
  <1>5. W3 = Rec(W.tag, [W.z EXCEPT ![s] = z], f, m1, W.count, W.browser)
    BY <1>4, SetZ, SMTT(30)
  <1> QED BY <1>1, <1>2, <1>5 DEF f, z, no, m1

(* window_minimize, field by field. *)
LEMMA MinimizeIs == ASSUME NEW W \in TableType, NEW s
  PROVE window_minimize(W, s) = Rec(W.tag, W.z, [W.focused EXCEPT ![s] = FALSE],
        [W.minimized EXCEPT ![s] = TRUE], W.count, W.browser)
  <1> DEFINE tg == W.tag  zz == W.z  ff == W.focused  mm == W.minimized  cc == W.count  bb == W.browser
  <1> DEFINE no == FALSE
             yes == TRUE
             m1 == [mm EXCEPT ![s] = yes]
             W1 == [W EXCEPT !.minimized[s] = yes]
             W2 == [W1 EXCEPT !.focused[s] = no]
  <1>1. window_minimize(W, s) = [W EXCEPT !.minimized[s] = yes, !.focused[s] = no]
    BY DEF window_minimize
  <1> HIDE DEF yes, no
  <1>2. [W EXCEPT !.minimized[s] = yes, !.focused[s] = no] = W2
    OBVIOUS
  <1>0. W = Rec(tg, zz, ff, mm, cc, bb)
    BY RecIs
  <1> HIDE DEF tg, zz, ff, mm, cc, bb
  <1>3. W1 = Rec(tg, zz, ff, m1, cc, bb)
    BY <1>0, SetMinimized
  <1> HIDE DEF W1, m1
  <1>4. W2 = Rec(tg, zz, [ff EXCEPT ![s] = no], m1, cc, bb)
    BY <1>3, SetFocused, SMTT(60)
  <1> QED BY <1>1, <1>2, <1>4 DEF yes, no, m1, tg, zz, ff, mm, cc, bb

(* window_destroy, field by field. *)
LEMMA DestroyIs == ASSUME NEW W \in TableType, NEW s
  PROVE window_destroy(W, s) = Rec([W.tag EXCEPT ![s] = Nothing], W.z, W.focused, W.minimized,
        IF W.count > 0 THEN W.count - 1 ELSE 0, W.browser)
  <1> DEFINE tg == W.tag  zz == W.z  ff == W.focused  mm == W.minimized  cc == W.count  bb == W.browser
  <1> DEFINE c == IF W.count > 0 THEN W.count - 1 ELSE 0
             t1 == [tg EXCEPT ![s] = Nothing]
             W1 == [W EXCEPT !.tag[s] = Nothing]
             W2 == [W1 EXCEPT !.count = c]
  <1>1. window_destroy(W, s) = [W EXCEPT !.tag[s] = Nothing, !.count = c]
    BY DEF window_destroy
  <1> HIDE DEF c
  <1>2. [W EXCEPT !.tag[s] = Nothing, !.count = c] = W2
    OBVIOUS
  <1>0. W = Rec(tg, zz, ff, mm, cc, bb)
    BY RecIs
  <1> HIDE DEF tg, zz, ff, mm, cc, bb
  <1>3. W1 = Rec(t1, zz, ff, mm, cc, bb)
    BY <1>0, SetTag, SMTT(30)
  <1> HIDE DEF W1, t1
  <1>4. W2 = Rec(t1, zz, ff, mm, c, bb)
    BY <1>3, SetCount
  <1> QED BY <1>1, <1>2, <1>4 DEF c, t1, tg, zz, ff, mm, cc, bb

(* What window_create puts in a slot. *)
NewIn(W, s, a) == [W EXCEPT !.tag[s] = a, !.z[s] = W.count, !.count = @ + 1,
                              !.focused[s] = TRUE, !.minimized[s] = FALSE]

(* The same, field by field. *)
LEMMA NewInIs == ASSUME NEW W \in TableType, NEW s, NEW a
  PROVE NewIn(W, s, a)
      = Rec([W.tag EXCEPT ![s] = a], [W.z EXCEPT ![s] = W.count], [W.focused EXCEPT ![s] = TRUE],
            [W.minimized EXCEPT ![s] = FALSE], W.count + 1, W.browser)
  <1> DEFINE tg == W.tag  zz == W.z  ff == W.focused  mm == W.minimized  cc == W.count  bb == W.browser
  <1> DEFINE c == W.count + 1
             n == W.count
             no == FALSE
             yes == TRUE
             t1 == [tg EXCEPT ![s] = a]
             z1 == [zz EXCEPT ![s] = n]
             f1 == [ff EXCEPT ![s] = yes]
             W1 == [W EXCEPT !.tag[s] = a]
             W2 == Rising(W1, s, n)
             W3 == [W2 EXCEPT !.count = c]
             W4 == [W3 EXCEPT !.focused[s] = yes]
             W5 == [W4 EXCEPT !.minimized[s] = no]
  <1>1. NewIn(W, s, a) = [W EXCEPT !.tag[s] = a, !.z[s] = n, !.count = c,
                              !.focused[s] = yes, !.minimized[s] = no]
    BY DEF TableType, NewIn
  <1> HIDE DEF c, n, yes, no
  <1>2. [W EXCEPT !.tag[s] = a, !.z[s] = n, !.count = c,
                              !.focused[s] = yes, !.minimized[s] = no] = W5
    BY DEF Rising
  <1>0. W = Rec(tg, zz, ff, mm, cc, bb)
    BY RecIs
  <1> HIDE DEF tg, zz, ff, mm, cc, bb
  <1>3. W1 = Rec(t1, zz, ff, mm, cc, bb)
    BY <1>0, SetTag, SMTT(30)
  <1> HIDE DEF W1, t1
  <1>4. W2 = Rec(t1, z1, ff, mm, cc, bb)
    BY <1>3, RisingIs
  <1> HIDE DEF W2, z1
  <1>5. W3 = Rec(t1, z1, ff, mm, c, bb)
    BY <1>4, SetCount
  <1> HIDE DEF W3
  <1>6. W4 = Rec(t1, z1, f1, mm, c, bb)
    BY <1>5, SetFocused
  <1> HIDE DEF W4, f1
  <1>7. W5 = Rec(t1, z1, f1, [mm EXCEPT ![s] = no], c, bb)
    BY <1>6, SetMinimized, SMTT(60)
  <1> QED BY <1>1, <1>2, <1>7 DEF c, n, yes, no, t1, z1, f1, tg, zz, ff, mm, cc, bb

(* The keys go to one window, in front of every other. *)
OneInFront(W) ==
    \A i \in LiveIn(W) : W.focused[i] = TRUE =>
        /\ W.minimized[i] = FALSE
        /\ \A j \in LiveIn(W) \ {i} : W.focused[j] = FALSE /\ W.z[j] < W.z[i]

TableOk(W) == W \in TableType /\ OneInFront(W) /\ W.count = Cardinality(LiveIn(W))

(* The windows can be counted. *)
LEMMA SlotsFinite ==
    /\ IsFiniteSet(WinSlot)
    /\ \A W : LiveIn(W) \subseteq WinSlot /\ IsFiniteSet(LiveIn(W)) /\ Cardinality(LiveIn(W)) \in Nat
  <1>1. IsFiniteSet(WinSlot) BY FS_Interval, DesktopAssumption DEF WinSlot
  <1> QED BY <1>1, FS_Subset, FS_CardinalityType DEF LiveIn

(* Finitely many numbers have a bound. *)
LEMMA SlotsBounded ==
    ASSUME NEW z \in [WinSlot -> Nat]
    PROVE  \E b \in Nat : \A i \in WinSlot : z[i] <= b
  <1> DEFINE Free(n) == \E b \in Nat : \A i \in 1 .. n : z[i] <= b
             Bad == {n \in Nat : n <= MaxWindows /\ ~Free(n)}
  <1>1. MaxWindows \in Nat BY DesktopAssumption
  <1>2. ASSUME NEW n \in Bad PROVE FALSE
    <2>1. PICK k \in Bad : \A m \in Bad : k <= m
      <3>1. Bad \subseteq Nat /\ Bad # {} BY <1>2
      <3> HIDE DEF Bad
      <3> QED BY <3>1, LeastNat
    <2>2. k \in Nat /\ k <= MaxWindows /\ ~Free(k) BY <2>1
    <2>3. k # 0
      <3>1. Free(0)
        <4>1. 0 \in Nat /\ \A i \in 1 .. 0 : z[i] <= 0 OBVIOUS
        <4> QED BY <4>1
      <3> QED BY <2>2, <3>1
    <2>4. k - 1 \in Nat /\ k - 1 <= MaxWindows BY <1>1, <2>2, <2>3
    <2>5. Free(k - 1)
      <3>1. k - 1 \notin Bad
        <4> HIDE DEF Bad
        <4> QED BY <2>1, <2>2, <2>4
      <3> HIDE DEF Free
      <3> QED BY <2>4, <3>1
    <2>6. PICK b \in Nat : \A i \in 1 .. k - 1 : z[i] <= b BY <2>5
    <2>7. k \in WinSlot /\ z[k] \in Nat BY <1>1, <2>2, <2>3 DEF WinSlot
    <2>8. PICK c \in Nat : b <= c /\ z[k] <= c
      <3>1. CASE b <= z[k] BY <2>7, <3>1
      <3>2. CASE ~(b <= z[k]) BY <2>6, <2>7, <3>2
      <3> QED BY <3>1, <3>2
    <2>9. \A i \in 1 .. k : z[i] <= c
      <3> SUFFICES ASSUME NEW i \in 1 .. k PROVE z[i] <= c OBVIOUS
      <3>1. i = k \/ i \in 1 .. k - 1 BY <2>2
      <3>2. z[i] \in Nat BY <1>1, <2>2 DEF WinSlot
      <3> QED BY <2>6, <2>8, <3>1, <3>2
    <2> QED BY <2>2, <2>9
  <1>3. Free(MaxWindows)
    <2>1. MaxWindows \notin Bad BY <1>2
    <2> HIDE DEF Free
    <2> QED BY <1>1, <2>1
  <1> QED BY <1>3 DEF WinSlot

(* MaxZIn is at least the height of every window. *)
LEMMA HighestZ ==
    ASSUME NEW W \in TableType
    PROVE  MaxZIn(W) \in Nat /\ \A i \in LiveIn(W) : W.z[i] <= MaxZIn(W)
  <1> DEFINE S == {0} \cup {W.z[i] : i \in LiveIn(W)}
             Above == {u \in Nat : \A s \in S : s <= u}
  <1>1. W.z \in [WinSlot -> Nat] BY DEF TableType
  <1>2. LiveIn(W) \subseteq WinSlot BY DEF LiveIn
  <1>3. S \subseteq Nat BY <1>1, <1>2
  <1>4. PICK b \in Nat : \A i \in WinSlot : W.z[i] <= b BY <1>1, SlotsBounded
  <1>5. b \in Above BY <1>2, <1>4
  <1>6. PICK u \in Above : \A v \in Above : u <= v
    <2>1. Above \subseteq Nat /\ Above # {} BY <1>5
    <2> HIDE DEF Above
    <2> QED BY <2>1, LeastNat
  <1>7. u \in S
    <2> SUFFICES ASSUME u \notin S PROVE FALSE OBVIOUS
    <2>1. u \in Nat /\ \A s \in S : s <= u BY <1>6
    <2>2. \A s \in S : s < u BY <1>3, <2>1
    <2>3. 0 < u BY <2>2
    <2>4. u - 1 \in Above BY <1>3, <2>1, <2>2, <2>3
    <2>5. u <= u - 1 BY <1>6, <2>4
    <2> QED BY <2>1, <2>5
  <1>8. \E m \in S : \A i \in LiveIn(W) : W.z[i] <= m BY <1>6, <1>7
  <1>9. MaxZIn(W) \in S /\ \A i \in LiveIn(W) : W.z[i] <= MaxZIn(W)
    BY <1>8 DEF MaxZIn
  <1> QED BY <1>3, <1>9

(* The window that gets the focus is in front, whoever had it before. *)
LEMMA FocusKeeps ==
    ASSUME NEW W, W \in TableType, W.count = Cardinality(LiveIn(W)), NEW s \in WinSlot
    PROVE  /\ TableOk(window_focus(W, s)) /\ LiveIn(window_focus(W, s)) = LiveIn(W)
           /\ window_focus(W, s).tag = W.tag /\ window_focus(W, s).browser = W.browser
           /\ window_focus(W, s).count = W.count
  <1> DEFINE V == window_focus(W, s)
             f == [i \in WinSlot |-> i = s \/ (W.focused[i] /\ W.tag[i] = Nothing)]
  <1>1. W \in TableType OBVIOUS
  <1>2. MaxZIn(W) \in Nat /\ \A i \in LiveIn(W) : W.z[i] <= MaxZIn(W) BY <1>1, HighestZ
  <1> DEFINE z1 == [W.z EXCEPT ![s] = MaxZIn(W) + 1]
             m1 == [W.minimized EXCEPT ![s] = FALSE]
  <1>3. V = Rec(W.tag, z1, f, m1, W.count, W.browser) BY <1>1, FocusIs
  <1>4. /\ W.tag \in [WinSlot -> App \cup {Nothing}] /\ W.z \in [WinSlot -> Nat]
        /\ W.focused \in [WinSlot -> BOOLEAN] /\ W.minimized \in [WinSlot -> BOOLEAN]
    BY <1>1 DEF TableType
  <1>5. f \in [WinSlot -> BOOLEAN] /\ z1 \in [WinSlot -> Nat] /\ m1 \in [WinSlot -> BOOLEAN]
    BY <1>2, <1>4
  <1> HIDE DEF V
  <1>a. /\ V.tag = W.tag /\ V.focused = f /\ V.minimized = m1 /\ V.z = z1
        /\ V.count = W.count /\ V.browser = W.browser
    BY <1>3 DEF Rec
  <1>6. V \in TableType
    <2> HIDE DEF f, z1, m1
    <2> QED BY <1>1, <1>3, <1>5 DEF TableType, Rec
  <1>7. LiveIn(V) = LiveIn(W) BY <1>a DEF LiveIn
  <1>8. OneInFront(V)
    <2> SUFFICES ASSUME NEW i \in LiveIn(W), f[i] = TRUE
                 PROVE  /\ V.minimized[i] = FALSE
                        /\ \A j \in LiveIn(W) \ {i} : f[j] = FALSE /\ V.z[j] < V.z[i]
      <3> HIDE DEF f
      <3> QED BY <1>a, <1>7 DEF OneInFront
    <2>1. i \in WinSlot /\ W.tag[i] # Nothing BY DEF LiveIn
    <2>2. i = s BY <2>1
    <2>3. V.minimized[i] = FALSE BY <1>a, <1>4, <2>1, <2>2
    <2>4. ASSUME NEW j \in LiveIn(W) \ {i} PROVE f[j] = FALSE /\ V.z[j] < V.z[i]
      <3>1. j \in WinSlot /\ W.tag[j] # Nothing /\ j # s BY <2>2 DEF LiveIn
      <3>2. f[j] = FALSE BY <3>1
      <3>3. V.z[j] = W.z[j] /\ W.z[j] \in Nat /\ V.z[i] = MaxZIn(W) + 1 BY <1>a, <1>4, <2>1, <2>2, <3>1
      <3> QED BY <1>2, <3>2, <3>3
    <2> QED BY <2>3, <2>4
  <1> QED BY <1>a, <1>6, <1>7, <1>8 DEF TableOk, V

(* window_focus keeps the table in order, ... *)
LEMMA FocusOk ==
    ASSUME NEW W, TableOk(W), NEW s \in WinSlot
    PROVE  TableOk(window_focus(W, s)) /\ LiveIn(window_focus(W, s)) = LiveIn(W)
  BY FocusKeeps DEF TableOk

(* ... so does window_minimize, ... *)
LEMMA MinimizeOk ==
    ASSUME NEW W, TableOk(W), NEW s \in WinSlot
    PROVE  TableOk(window_minimize(W, s)) /\ LiveIn(window_minimize(W, s)) = LiveIn(W)
  <1> DEFINE V == window_minimize(W, s)
  <1>1. W \in TableType BY DEF TableOk
  <1> DEFINE f1 == [W.focused EXCEPT ![s] = FALSE]
             m1 == [W.minimized EXCEPT ![s] = TRUE]
  <1>2. V = Rec(W.tag, W.z, f1, m1, W.count, W.browser) BY <1>1, MinimizeIs
  <1>3. /\ W.focused \in [WinSlot -> BOOLEAN] /\ W.minimized \in [WinSlot -> BOOLEAN]
    BY <1>1 DEF TableType
  <1>4. f1 \in [WinSlot -> BOOLEAN] /\ m1 \in [WinSlot -> BOOLEAN] BY <1>3
  <1> HIDE DEF V
  <1>a. /\ V.tag = W.tag /\ V.focused = f1 /\ V.minimized = m1 /\ V.z = W.z /\ V.count = W.count
    BY <1>2 DEF Rec
  <1>5. V \in TableType
    <2> HIDE DEF f1, m1
    <2> QED BY <1>1, <1>2, <1>4 DEF TableType, Rec
  <1>6. LiveIn(V) = LiveIn(W) BY <1>a DEF LiveIn
  <1>7. OneInFront(V)
    <2> SUFFICES ASSUME NEW i \in LiveIn(W), V.focused[i] = TRUE
                 PROVE  /\ V.minimized[i] = FALSE
                        /\ \A j \in LiveIn(W) \ {i} : V.focused[j] = FALSE /\ V.z[j] < V.z[i]
      BY <1>6 DEF OneInFront
    <2>1. i \in WinSlot BY DEF LiveIn
    <2>2. i # s /\ W.focused[i] = TRUE BY <1>a, <1>3, <2>1
    <2>3. /\ W.minimized[i] = FALSE
          /\ \A j \in LiveIn(W) \ {i} : W.focused[j] = FALSE /\ W.z[j] < W.z[i]
      BY <2>2 DEF TableOk, OneInFront
    <2>4. \A j \in LiveIn(W) : j \in WinSlot BY DEF LiveIn
    <2> QED BY <1>a, <1>3, <2>1, <2>2, <2>3, <2>4
  <1> QED BY <1>a, <1>5, <1>6, <1>7 DEF TableOk, V

(* ... and window_destroy. *)
LEMMA DestroyOk ==
    ASSUME NEW W, TableOk(W), NEW s \in LiveIn(W)
    PROVE  TableOk(window_destroy(W, s))
  <1> DEFINE V == window_destroy(W, s)
  <1>1. W \in TableType BY DEF TableOk
  <1>2. s \in WinSlot BY DEF LiveIn
  <1>3. W.tag \in [WinSlot -> App \cup {Nothing}] /\ W.count \in Nat BY <1>1 DEF TableType
  <1> DEFINE t1 == [W.tag EXCEPT ![s] = Nothing]
             c1 == IF W.count > 0 THEN W.count - 1 ELSE 0
  <1>4. V = Rec(t1, W.z, W.focused, W.minimized, c1, W.browser) BY <1>1, DestroyIs
  <1>5. t1 \in [WinSlot -> App \cup {Nothing}] /\ c1 \in Nat
    <2>1. t1 \in [WinSlot -> App \cup {Nothing}] BY <1>3
    <2>2. c1 \in Nat BY <1>3
    <2> QED BY <2>1, <2>2
  <1> HIDE DEF V
  <1>a. /\ V.tag = t1 /\ V.focused = W.focused /\ V.minimized = W.minimized /\ V.z = W.z /\ V.count = c1
    BY <1>4 DEF Rec
  <1>6. V \in TableType
    <2> HIDE DEF t1, c1
    <2> QED BY <1>1, <1>4, <1>5 DEF TableType, Rec
  <1>7. LiveIn(V) = LiveIn(W) \ {s}
    <2>1. \A i \in WinSlot : V.tag[i] = IF i = s THEN Nothing ELSE W.tag[i] BY <1>3, <1>a
    <2> QED BY <2>1 DEF LiveIn
  <1>8. V.count = Cardinality(LiveIn(V))
    <2>1. IsFiniteSet(LiveIn(W)) BY SlotsFinite
    <2>2. Cardinality(LiveIn(W) \ {s}) = Cardinality(LiveIn(W)) - 1 BY <2>1, FS_RemoveElement
    <2>3. Cardinality(LiveIn(W) \ {s}) \in Nat BY <1>7, SlotsFinite
    <2>4. W.count = Cardinality(LiveIn(W)) BY DEF TableOk
    <2> QED BY <1>3, <1>a, <1>7, <2>2, <2>3, <2>4
  <1>9. OneInFront(V)
    BY <1>a, <1>7 DEF TableOk, OneInFront
  <1> QED BY <1>6, <1>8, <1>9 DEF TableOk, V

(* A table that is not full has a first free slot. *)
LEMMA FreeSlot ==
    ASSUME NEW W, LiveIn(W) # WinSlot
    PROVE  (CHOOSE i \in WinSlot \ LiveIn(W) : \A j \in WinSlot \ LiveIn(W) : i <= j) \in WinSlot \ LiveIn(W)
  <1> DEFINE F == WinSlot \ LiveIn(W)
  <1>1. F \subseteq Nat /\ F # {}
    <2>1. LiveIn(W) \subseteq WinSlot BY DEF LiveIn
    <2>2. WinSlot \subseteq Nat BY DesktopAssumption DEF WinSlot
    <2> QED BY <2>1, <2>2
  <1> HIDE DEF F
  <1>2. \E i \in F : \A j \in F : i <= j BY <1>1, LeastNat
  <1>3. (CHOOSE i \in F : \A j \in F : i <= j) \in F BY <1>2
  <1> QED BY <1>3 DEF F

(* window_create keeps the table in order and closes nothing, ... *)
LEMMA CreateOk ==
    ASSUME NEW W, TableOk(W), NEW a \in App
    PROVE  /\ TableOk(window_create(W, a)) /\ LiveIn(W) \subseteq LiveIn(window_create(W, a))
  <1>1. CASE LiveIn(W) = WinSlot BY <1>1 DEF window_create
  <1>2. CASE LiveIn(W) # WinSlot
    <2> DEFINE s == CHOOSE i \in WinSlot \ LiveIn(W) : \A j \in WinSlot \ LiveIn(W) : i <= j
               V == NewIn(W, s, a)
    <2>1. window_create(W, a) = window_focus(V, s) BY <1>2 DEF window_create, NewIn
    <2>2. s \in WinSlot /\ s \notin LiveIn(W) BY <1>2, FreeSlot
    <2> HIDE DEF s
    <2>3. W \in TableType BY DEF TableOk
    <2>4. /\ W.tag \in [WinSlot -> App \cup {Nothing}] /\ W.z \in [WinSlot -> Nat]
          /\ W.focused \in [WinSlot -> BOOLEAN] /\ W.minimized \in [WinSlot -> BOOLEAN] /\ W.count \in Nat
      BY <2>3 DEF TableType
    <2> DEFINE t1 == [W.tag EXCEPT ![s] = a]
               z1 == [W.z EXCEPT ![s] = W.count]
               f1 == [W.focused EXCEPT ![s] = TRUE]
               m1 == [W.minimized EXCEPT ![s] = FALSE]
    <2>5. V = Rec(t1, z1, f1, m1, W.count + 1, W.browser) BY <2>3, NewInIs
    <2>6. /\ t1 \in [WinSlot -> App \cup {Nothing}] /\ z1 \in [WinSlot -> Nat]
          /\ f1 \in [WinSlot -> BOOLEAN] /\ m1 \in [WinSlot -> BOOLEAN]
      BY <2>4
    <2> HIDE DEF V
    <2>7. V.tag = t1 /\ V.count = W.count + 1 BY <2>5 DEF Rec
    <2>8. V \in TableType
      <3> HIDE DEF t1, z1, f1, m1
      <3> QED BY <2>3, <2>4, <2>5, <2>6 DEF TableType, Rec
    <2>9. LiveIn(V) = LiveIn(W) \cup {s}
      <3>1. \A i \in WinSlot : V.tag[i] = IF i = s THEN a ELSE W.tag[i] BY <2>4, <2>7
      <3>2. a # Nothing BY DesktopAssumption
      <3> QED BY <2>2, <3>1, <3>2 DEF LiveIn
    <2>10. V.count = Cardinality(LiveIn(V))
      <3>1. IsFiniteSet(LiveIn(W)) BY SlotsFinite
      <3>2. Cardinality(LiveIn(W) \cup {s}) = Cardinality(LiveIn(W)) + 1 BY <2>2, <3>1, FS_AddElement
      <3> QED BY <2>7, <2>9, <3>2 DEF TableOk
    <2>11. TableOk(window_focus(V, s)) /\ LiveIn(window_focus(V, s)) = LiveIn(V)
      BY <2>2, <2>8, <2>10, FocusKeeps
    <2> QED BY <2>1, <2>9, <2>11
  <1> QED BY <1>1, <1>2

(* ... and so does launching an application. *)
LEMMA LaunchOk ==
    ASSUME NEW W, TableOk(W), NEW a \in App
    PROVE  TableOk(launch(W, a)) /\ LiveIn(W) \subseteq LiveIn(launch(W, a))
  <1>1. CASE a # Browser BY <1>1, CreateOk DEF launch
  <1>2. CASE a = Browser /\ W.browser # Nothing
    <2>1. W.browser \in WinSlot BY <1>2 DEF TableOk, TableType
    <2> DEFINE V == window_focus(W, W.browser)
    <2>2. TableOk(V) /\ LiveIn(V) = LiveIn(W) BY <2>1, FocusOk
    <2>3. TableOk(window_focus(V, W.browser)) /\ LiveIn(window_focus(V, W.browser)) = LiveIn(V)
      BY <2>1, <2>2, FocusOk
    <2>4. launch(W, a) = window_focus(V, W.browser) BY <1>2 DEF launch
    <2> QED BY <2>2, <2>3, <2>4
  <1>3. CASE a = Browser /\ W.browser = Nothing
    <2> DEFINE V == window_create(W, a)
               new == {i \in WinSlot : V.tag[i] # W.tag[i]}
               s == CHOOSE i \in new : TRUE
               B == [V EXCEPT !.browser = s]
    <2>1. TableOk(V) /\ LiveIn(W) \subseteq LiveIn(V) BY CreateOk
    <2>2. launch(W, a) = IF new = {} THEN V ELSE window_focus(B, s) BY <1>3 DEF launch
    <2>3. CASE new = {} BY <2>1, <2>2, <2>3
    <2>4. CASE new # {}
      <3>1. s \in WinSlot BY <2>4
      <3> HIDE DEF s, V
      <3>2. V \in TableType BY <2>1 DEF TableOk
      <3>3. V = Rec(V.tag, V.z, V.focused, V.minimized, V.count, V.browser) BY <3>2, RecIs
      <3>4. B = Rec(V.tag, V.z, V.focused, V.minimized, V.count, s) BY <3>3, SetBrowser
      <3> HIDE DEF B
      <3>5. B.tag = V.tag /\ B.z = V.z /\ B.focused = V.focused /\ B.minimized = V.minimized /\ B.count = V.count
        BY <3>4 DEF Rec
      <3>6. B \in TableType BY <3>1, <3>2, <3>4 DEF TableType, Rec
      <3>7. LiveIn(B) = LiveIn(V) BY <3>5 DEF LiveIn
      <3>8. TableOk(B) BY <2>1, <3>5, <3>6, <3>7 DEF TableOk, OneInFront
      <3>9. TableOk(window_focus(B, s)) /\ LiveIn(window_focus(B, s)) = LiveIn(B) BY <3>1, <3>8, FocusOk
      <3>10. launch(W, a) = window_focus(B, s) BY <2>2, <2>4
      <3> QED BY <2>1, <3>7, <3>9, <3>10
    <2> QED BY <2>3, <2>4
  <1> QED BY <1>1, <1>2, <1>3

(* The table is in order, one menu is open at most, a drag is held. *)
DesktopInv ==
    /\ TableOk(Table)
    /\ openMenus \subseteq Menu /\ (openMenus = {} \/ \E m \in Menu : openMenus = {m})
    /\ drag_window # Nothing => drag_window \in LiveIn(Table) /\ button = TRUE /\ prev_left = TRUE

(* The table of the variables. *)
LEMMA TableFields ==
    /\ Table = Rec(tag, z_order, is_focused, is_minimized, window_count, browser_win)
    /\ LiveIn(Table) = Live
  BY DEF Table, Rec, Live, LiveIn

(* A step that stores a table. *)
LEMMA BecomesTable ==
    ASSUME NEW W \in TableType, Becomes(W) PROVE Table' = W
  <1>1. W = Rec(W.tag, W.z, W.focused, W.minimized, W.count, W.browser) BY RecIs
  <1>2. Table' = Rec(tag', z_order', is_focused', is_minimized', window_count', browser_win')
    BY DEF Table, Rec
  <1> QED BY <1>1, <1>2 DEF Becomes

(* A step that leaves it alone. *)
LEMMA TableRests == UNCHANGED winTable => Table' = Table
  BY DEF winTable, Table

(* What a step may make of the table without closing a window. *)
Grown(W) == TableOk(W) /\ LiveIn(Table) \subseteq LiveIn(W)

(* Launching closes no window, ... *)
LEMMA LaunchGrows ==
    ASSUME TableOk(Table), NEW a \in App PROVE Grown(launch(Table, a))
  BY LaunchOk DEF Grown

(* ... and neither does a button of the taskbar. *)
LEMMA ButtonGrows ==
    ASSUME TableOk(Table), NEW a \in App, TaskButton(a)
    PROVE  Grown(Table')
  <1> DEFINE mine == {i \in Live : tag[i] = a}
             s == CHOOSE i \in mine : \A j \in mine : i <= j
  <1>1. CASE mine = {}
    <2>1. Becomes(launch(Table, a)) BY <1>1 DEF TaskButton
    <2>2. Grown(launch(Table, a)) BY LaunchGrows
    <2>3. Table' = launch(Table, a) BY <2>1, <2>2, BecomesTable DEF Grown, TableOk
    <2> QED BY <2>2, <2>3
  <1>2. CASE mine # {}
    <2>1. mine \subseteq Nat /\ mine \subseteq Live BY DesktopAssumption DEF Live, WinSlot
    <2>2. s \in mine
      <3> HIDE DEF mine
      <3> QED BY <1>2, <2>1, LeastNat
    <2> HIDE DEF s
    <2>3. s \in WinSlot BY <2>1, <2>2 DEF Live
    <2>4. \/ Becomes(window_focus(Table, s)) \/ Becomes(window_minimize(Table, s))
      BY <1>2 DEF TaskButton, s
    <2>5. Grown(window_focus(Table, s)) BY <2>3, FocusOk DEF Grown
    <2>6. Grown(window_minimize(Table, s)) BY <2>3, MinimizeOk DEF Grown
    <2>7. CASE Becomes(window_focus(Table, s))
      <3>1. Table' = window_focus(Table, s) BY <2>5, <2>7, BecomesTable DEF Grown, TableOk
      <3> QED BY <2>5, <3>1
    <2>8. CASE Becomes(window_minimize(Table, s))
      <3>1. Table' = window_minimize(Table, s) BY <2>6, <2>8, BecomesTable DEF Grown, TableOk
      <3> QED BY <2>6, <3>1
    <2> QED BY <2>4, <2>7, <2>8
  <1> QED BY <1>1, <1>2

(* A press in a window closes it, or may begin to drag it. *)
LEMMA WindowPressed ==
    ASSUME TableOk(Table), NEW s \in Live, NEW part, PressWindow(s, part)
    PROVE  /\ TableOk(Table')
           /\ \/ drag_window' = drag_window
              \/ drag_window' = s /\ LiveIn(Table') = LiveIn(Table)
  <1> DEFINE F == window_focus(Table, s)
  <1>1. s \in WinSlot /\ s \in LiveIn(Table) BY TableFields DEF Live
  <1>2. TableOk(F) /\ LiveIn(F) = LiveIn(Table) BY <1>1, FocusOk
  <1>3. ASSUME NEW W, TableOk(W), Becomes(W) PROVE Table' = W
    BY <1>3, BecomesTable DEF TableOk
  <1>4. /\ TableOk(window_destroy(F, s)) /\ TableOk(window_minimize(F, s)) /\ TableOk(window_focus(F, s))
    BY <1>1, <1>2, DestroyOk, MinimizeOk, FocusOk
  <1>5. ASSUME NEW W \in on_mouse(F, tag[s]) PROVE TableOk(W)
    <2>1. W = F \/ \E a \in App : W = launch(F, a)
      BY <1>5 DEF on_mouse, on_browser_mouse, on_explorer_mouse, installer_launch
    <2> QED BY <1>2, <2>1, LaunchOk
  <1> HIDE DEF F
  <1>6. \/ Becomes(window_destroy(F, s)) /\ UNCHANGED drag_window
        \/ Becomes(window_minimize(F, s)) /\ UNCHANGED drag_window
        \/ Becomes(window_focus(F, s)) /\ UNCHANGED drag_window
        \/ Becomes(F) /\ drag_window' = s
        \/ UNCHANGED drag_window /\ \E W \in on_mouse(F, tag[s]) : Becomes(W)
    BY DEF PressWindow, F
  <1> QED BY <1>2, <1>3, <1>4, <1>5, <1>6

(* compositor_init: no window, no menu, no drag. *)
LEMMA DesktopStarts == compositor_init => DesktopInv
  <1> SUFFICES ASSUME compositor_init PROVE DesktopInv OBVIOUS
  <1>1. Live = {} BY DEF compositor_init, Live
  <1>2. LiveIn(Table) = {} BY <1>1, TableFields
  <1>3. Table \in TableType
    BY DEF compositor_init, Table, TableType
  <1>4. Table.count = 0 BY DEF compositor_init, Table
  <1>5. TableOk(Table) BY <1>2, <1>3, <1>4, FS_EmptySet DEF TableOk, OneInFront
  <1> QED BY <1>5 DEF DesktopInv, compositor_init

(* Opening a menu closes the others. *)
LEMMA ToggleKeeps ==
    ASSUME NEW m \in Menu, openMenus = {} \/ (\E n \in Menu : openMenus = {n}), Toggle(m)
    PROVE  openMenus' \subseteq Menu /\ (openMenus' = {} \/ \E n \in Menu : openMenus' = {n})
  BY DEF Toggle

(* Whatever a press lands on, ... *)
LEMMA PressKeeps ==
    ASSUME DesktopInv, Press PROVE DesktopInv'
  <1>1. TableOk(Table) /\ drag_window = Nothing
    BY DEF DesktopInv, Press
  <1>2. button' = TRUE /\ prev_left' = TRUE BY DEF Press
  <1>3. SUFFICES /\ TableOk(Table')
                 /\ openMenus' \subseteq Menu /\ (openMenus' = {} \/ \E m \in Menu : openMenus' = {m})
                 /\ drag_window' # Nothing => drag_window' \in LiveIn(Table')
    BY <1>2 DEF DesktopInv, LiveIn, TableOk, OneInFront, Table, TableType
  <1>4. openMenus \subseteq Menu /\ (openMenus = {} \/ \E m \in Menu : openMenus = {m}) BY DEF DesktopInv
  <1>5. ASSUME NEW a \in App, Becomes(launch(Table, a)) PROVE TableOk(Table')
    <2>1. TableOk(launch(Table, a)) BY <1>1, LaunchOk
    <2> QED BY <1>5, <2>1, BecomesTable DEF TableOk
  <1>6. UNCHANGED winTable => TableOk(Table') BY <1>1, TableRests
  <1>7. CASE Taskbar
    <2>1. drag_window' = Nothing BY <1>1, <1>7 DEF Taskbar
    <2>2. ASSUME NEW m \in Menu, Toggle(m), UNCHANGED winTable
          PROVE  /\ TableOk(Table')
                 /\ openMenus' \subseteq Menu /\ (openMenus' = {} \/ \E n \in Menu : openMenus' = {n})
      BY <1>4, <1>6, <2>2, ToggleKeeps
    <2>3. ASSUME NEW a \in App, TaskButton(a) PROVE TableOk(Table')
      BY <1>1, <2>3, ButtonGrows DEF Grown
    <2> QED BY <1>4, <1>5, <1>7, <2>1, <2>2, <2>3 DEF Taskbar, menus
  <1>8. CASE StartMenu
    BY <1>1, <1>4, <1>5, <1>6, <1>8 DEF StartMenu
  <1>9. CASE Elsewhere
    <2>1. openMenus' \subseteq Menu /\ (openMenus' = {} \/ \E m \in Menu : openMenus' = {m})
      BY <1>4, <1>9 DEF Elsewhere, menus
    <2>2. ASSUME NEW s \in Live, NEW part, PressWindow(s, part)
          PROVE  TableOk(Table') /\ (drag_window' # Nothing => drag_window' \in LiveIn(Table'))
      <3>1. /\ TableOk(Table')
            /\ \/ drag_window' = drag_window
               \/ drag_window' = s /\ LiveIn(Table') = LiveIn(Table)
        BY <1>1, <2>2, WindowPressed
      <3>2. s \in LiveIn(Table) BY TableFields
      <3> QED BY <1>1, <3>1, <3>2
    <2>3. ASSUME NEW i \in Icon, PressIcon(i) PROVE TableOk(Table')
      BY <1>5, <1>6, <2>3 DEF PressIcon
    <2>4. \/ \E s \in Live, part \in {"close", "minimize", "maximize", "title", "body"} : PressWindow(s, part)
          \/ (\E i \in Icon : PressIcon(i)) /\ UNCHANGED drag_window
          \/ UNCHANGED <<winTable, drag_window, selected>>
      BY <1>9 DEF Elsewhere
    <2> QED BY <1>1, <1>6, <2>1, <2>2, <2>3, <2>4
  <1> QED BY <1>7, <1>8, <1>9 DEF Press

(* ... and whatever a key is for, the desktop stays in order. *)
LEMMA KeyKeeps ==
    ASSUME DesktopInv, compositor_dispatch_key PROVE DesktopInv'
  <1>1. TableOk(Table) BY DEF DesktopInv
  <1>2. UNCHANGED <<menus, prev_left, button, drag_window, selected, halted>> BY DEF compositor_dispatch_key
  <1>3. Grown(Table')
    <2>1. CASE UNCHANGED winTable BY <1>1, <2>1, TableRests DEF Grown
    <2>2. ASSUME NEW W \in execute_django_backend_command(Table), Becomes(W) PROVE Grown(Table')
      <3>1. Grown(W) BY <1>1, LaunchGrows DEF execute_django_backend_command, Grown
      <3>2. Table' = W BY <2>2, <3>1, BecomesTable DEF Grown, TableOk
      <3> QED BY <3>1, <3>2
    <2> QED BY <2>1, <2>2 DEF compositor_dispatch_key
  <1>4. TableOk(Table') /\ LiveIn(Table) \subseteq LiveIn(Table') BY <1>3 DEF Grown
  <1> QED BY <1>2, <1>4 DEF DesktopInv, menus, TableOk, TableType, OneInFront, LiveIn, Table

(* Every step of the compositor keeps the invariant. *)
LEMMA DesktopSteps == DesktopInv /\ [DesktopNext]_desktopVars => DesktopInv'
  <1> SUFFICES ASSUME DesktopInv, [DesktopNext]_desktopVars PROVE DesktopInv' OBVIOUS
  <1>1. ASSUME UNCHANGED winTable PROVE Table' = Table BY <1>1, TableRests
  <1>2. ASSUME Table' = Table, openMenus' \in {openMenus, openMenus \ {"start"}},
               drag_window' = Nothing \/ UNCHANGED <<drag_window, button, prev_left>>
        PROVE  DesktopInv'
    <2>1. TableOk(Table') /\ LiveIn(Table') = LiveIn(Table) BY <1>2 DEF DesktopInv
    <2> QED BY <1>2, <2>1 DEF DesktopInv, TableOk, TableType, OneInFront, LiveIn, Table
  <1>3. CASE UNCHANGED desktopVars
    BY <1>1, <1>2, <1>3 DEF desktopVars, menus
  <1>4. CASE WakeByMouse
    <2>1. drag_window' = Nothing BY <1>4 DEF WakeByMouse, DesktopInv
    <2> QED BY <1>1, <1>2, <1>4, <2>1 DEF WakeByMouse, menus
  <1>5. CASE system_hibernate
    <2>1. drag_window' = Nothing BY <1>5 DEF system_hibernate, DesktopInv
    <2> QED BY <1>1, <1>2, <1>5, <2>1 DEF system_hibernate
  <1>6. CASE system_shutdown
    <2>1. drag_window' = Nothing BY <1>6 DEF system_shutdown, DesktopInv
    <2> QED BY <1>1, <1>2, <1>6, <2>1 DEF system_shutdown, menus
  <1>7. CASE ButtonUp
    BY <1>1, <1>2, <1>7 DEF ButtonUp, menus
  <1> QED BY <1>3, <1>4, <1>5, <1>6, <1>7, PressKeeps, KeyKeeps DEF DesktopNext

(* After any order of presses, keys and ticks the window that has the keys is
   in front and shown, one menu is open at most, and the window that is dragged
   is open and held (compositor.c). *)
THEOREM WindowsAgree == DesktopSpec => [](KeysOnTop /\ DragIsHeld)
  <1>1. ASSUME DesktopInv PROVE KeysOnTop /\ DragIsHeld
    <2>1. TableOk(Table) /\ LiveIn(Table) = Live BY <1>1, TableFields DEF DesktopInv
    <2>2. /\ Table.focused = is_focused /\ Table.minimized = is_minimized /\ Table.z = z_order
          /\ Table.tag = tag /\ Table.count = window_count
      BY DEF Table
    <2>3. ASSUME NEW i \in Live, is_focused[i]
          PROVE  /\ ~is_minimized[i]
                 /\ \A j \in Live \ {i} : ~is_focused[j] /\ z_order[j] < z_order[i]
                 /\ Lit \subseteq {tag[i]}
      <3>1. is_focused \in [WinSlot -> BOOLEAN] /\ Live \subseteq WinSlot
        BY <2>1, <2>2 DEF TableOk, TableType, Live
      <3>2. is_focused[i] = TRUE BY <2>3, <3>1
      <3>3. /\ is_minimized[i] = FALSE
            /\ \A j \in Live \ {i} : is_focused[j] = FALSE /\ z_order[j] < z_order[i]
        BY <2>1, <2>2, <3>2 DEF TableOk, OneInFront
      <3>4. Lit \subseteq {tag[i]} BY <3>3 DEF Lit
      <3> QED BY <3>3, <3>4
    <2>4. KeysOnTop BY <2>3 DEF KeysOnTop
    <2>5. window_count = Cardinality(Live) BY <2>1, <2>2 DEF TableOk
    <2>6. Cardinality(openMenus) <= 1
      <3>1. CASE openMenus = {} BY <3>1, FS_EmptySet
      <3>2. CASE openMenus # {}
        <4>1. PICK m : openMenus = {m} BY <1>1, <3>2 DEF DesktopInv
        <4>2. Cardinality({m}) = 1 BY FS_Singleton
        <4> QED BY <4>1, <4>2
      <3> QED BY <3>1, <3>2
    <2>7. drag_window # Nothing => drag_window \in Live /\ button /\ prev_left
      BY <1>1, <2>1 DEF DesktopInv
    <2> QED BY <2>4, <2>5, <2>6, <2>7 DEF DragIsHeld
  <1> QED BY <1>1, DesktopStarts, DesktopSteps, PTL DEF DesktopSpec

-----------------------------------------------------------------------------
(* What is drawn and what is pressed. *)

(* Boxes with integer places; windows are wider than their buttons and
   higher than their title bar.                                            *)
WindowBox == [left : Int, top : Int, width : Nat \ (0 .. 126), height : Nat \ (0 .. 36)]

Kinds == {"dock", "tile", "entry", "icon", "clock", "volume", "power"} \cup WindowParts

(* The columns and rows of a thing are those of its kind. *)
Placed(t) ==
    /\ t.kind \in Kinds /\ t.col \in Int /\ t.row \in Int
    /\ t.kind = "dock" => 0 <= t.col /\ t.col <= 9 /\ t.row = 0
    /\ t.kind = "tile" => 0 <= t.col /\ t.col <= 3 /\ 0 <= t.row /\ t.row <= 1
    /\ t.kind = "entry" => t.col = 0 /\ 0 <= t.row /\ t.row <= 2
    /\ t.kind = "icon" => 1 <= t.col /\ t.col <= 4 /\ 0 <= t.row /\ t.row <= 7
    /\ t.kind \notin {"dock", "tile", "entry", "icon"} => t.col = 0 /\ t.row = 0

(* Everything that is drawn has the columns and rows of its kind. *)
LEMMA ThingsArePlaced == \A t \in Things : Placed(t)
  <1> SUFFICES ASSUME NEW t \in Things PROVE Placed(t) OBVIOUS
  <1> QED BY DEF Things, Placed, Kinds, WindowParts

(* Kind, column and row tell things apart. *)
LEMMA ThingsDiffer ==
    ASSUME NEW t \in Things, NEW d \in Things, t.kind = d.kind, t.col = d.col, t.row = d.row
    PROVE  t = d
  <1> DEFINE R == [kind : Kinds, col : Int, row : Int]
  <1>1. t \in R /\ d \in R BY DEF Things, Kinds, WindowParts
  <1> QED BY <1>1

PointingType ==
    /\ mouse \in Point /\ down \in BOOLEAN
    /\ win \in {"closed", "minimized", "shown"}
    /\ frame \in WindowBox /\ kept \in WindowBox /\ is_maximized \in BOOLEAN
    /\ grip = NoGrip \/ grip \in Int \X Int
    /\ menu \in {"none", "start", "power", "calendar", "volume"}

(* Points are on a screen of at least 800 by 600. *)
LEMMA Screen ==
    ASSUME NEW p \in Point
    PROVE  /\ Width \in Int /\ Height \in Int /\ Width >= 800 /\ Height >= 600
           /\ p[1] \in Int /\ p[2] \in Int
           /\ 0 <= p[1] /\ p[1] < Width /\ 0 <= p[2] /\ p[2] < Height
  BY PointingAssumption

(* Where something is seen it is hit, but for the edges of the two cards. *)
LEMMA Landed ==
    ASSUME PointingType, NEW t \in Things, compositor_render(t, mouse), ~Beside(t, mouse)
    PROVE  HitAt(t, mouse)
  <1> DEFINE p == mouse
  <1>1. /\ Width \in Int /\ Height \in Int /\ Width >= 800 /\ Height >= 600
        /\ p[1] \in Int /\ p[2] \in Int
        /\ 0 <= p[1] /\ p[1] < Width /\ 0 <= p[2] /\ p[2] < Height
    BY Screen DEF PointingType
  <1>2. Placed(t) BY ThingsArePlaced
  <1>3. In(p, Painted(t)) /\ ~Cover(Layer(t), p) /\ Present(t) BY DEF compositor_render
  <1>4. /\ frame.left \in Int /\ frame.top \in Int /\ frame.width \in Int /\ frame.height \in Int
        /\ frame.width > 126 /\ frame.height > 36
    BY DEF PointingType, WindowBox
  <1>5. CASE t.kind \in {"dock", "clock", "volume"}
    BY <1>1, <1>2, <1>3, <1>5 DEF Placed, In, Painted, render_taskbar, Box, HitAt, TaskbarHit, Between,
       TaskbarTop, TASKBAR_HEIGHT, Beside
  <1>6. CASE t.kind \in {"power", "tile", "entry"}
    BY <1>1, <1>2, <1>3, <1>6 DEF Placed, In, Painted, render_start_menu, Box, HitAt, StartMenuHit, Between,
       TaskbarTop, TASKBAR_HEIGHT, MenuTop, UserBar, PowerTop, InMenu
  <1>7. CASE t.kind \in WindowParts
    <2>1. In(p, render_window_frame(t))
      BY <1>3, <1>7 DEF Painted, WindowParts
    <2>2. WindowHit(t, p)
      BY <1>1, <1>4, <1>7, <2>1 DEF In, render_window_frame, Box, WindowHit, Between,
       TITLEBAR_HEIGHT, WindowParts
    <2> QED BY <2>2 DEF HitAt
  <1>8. CASE t.kind = "icon"
    <2>1. ColumnLeft[t.col] \in Int
      BY <1>1, <1>2, <1>8 DEF ColumnLeft, Placed
    <2> QED BY <1>1, <1>2, <1>3, <1>8, <2>1 DEF Placed, In, Painted, render_desktop_icons, Box, HitAt, IconHit, Between, WindowParts
  <1> QED BY <1>2, <1>5, <1>6, <1>7, <1>8 DEF Placed, Kinds

(* What is in a row of the order of tests. *)
LEMMA TurnIs ==
    ASSUME NEW t, Placed(t)
    PROVE  /\ t.kind \in {"dock", "clock", "volume"} => Turn(t) = 1
           /\ t.kind = "power" => Turn(t) = 2
           /\ t.kind = "entry" => Turn(t) = 3
           /\ t.kind = "tile" => Turn(t) = 4
           /\ t.kind \in WindowParts => Turn(t) = 5
           /\ t.kind = "icon" => Turn(t) = 6
           /\ Turn(t) \in 1 .. 6
  BY DEF Turn, WindowParts, Placed, Kinds

(* Which test a thing is hit by. *)
LEMMA HitBy ==
    ASSUME NEW d, NEW p, Placed(d), HitAt(d, p)
    PROVE  /\ d.kind \in {"dock", "clock", "volume"} => TaskbarHit(d, p)
           /\ d.kind \in {"power", "tile", "entry"} => StartMenuHit(d, p)
           /\ d.kind \in WindowParts => WindowHit(d, p)
           /\ d.kind = "icon" => IconHit(d, p)
  BY DEF HitAt, TaskbarHit, StartMenuHit, WindowHit, IconHit, WindowParts, Placed, Kinds

(* Whatever else a press could hit there is asked for after what is seen. *)
LEMMA OthersLater ==
    ASSUME PointingType, win = "shown" => Drawn,
           NEW t \in Things, compositor_render(t, mouse), ~Beside(t, mouse),
           NEW d \in Things, Present(d), HitAt(d, mouse), d # t
    PROVE  Turn(t) < Turn(d)
  <1> DEFINE p == mouse
  <1>1. /\ Width \in Int /\ Height \in Int /\ Width >= 800 /\ Height >= 600
        /\ p[1] \in Int /\ p[2] \in Int
        /\ 0 <= p[1] /\ p[1] < Width /\ 0 <= p[2] /\ p[2] < Height
    BY Screen DEF PointingType
  <1>2. Placed(t) /\ Placed(d) BY ThingsArePlaced
  <1>3. In(p, Painted(t)) /\ ~Cover(Layer(t), p) BY DEF compositor_render
  <1>4. /\ frame.left \in Int /\ frame.top \in Int /\ frame.width \in Int /\ frame.height \in Int
        /\ frame.width > 126 /\ frame.height > 36
    BY DEF PointingType, WindowBox
  <1>5. HitAt(t, p) BY Landed
  <1>6. t.kind # d.kind \/ t.col # d.col \/ t.row # d.row BY ThingsDiffer
  <1>7. SUFFICES ASSUME Turn(d) <= Turn(t) PROVE FALSE
    BY <1>2, TurnIs
  <1> USE DEF TaskbarTop, TASKBAR_HEIGHT, MenuTop, UserBar, PowerTop
  <1>8. CASE d.kind \in {"dock", "clock", "volume"}
    <2>1. TaskbarHit(d, p) BY <1>2, <1>8, HitBy
    <2>2. p[2] >= TaskbarTop BY <2>1 DEF TaskbarHit
    <2>3. ~(Layer(t) < 2) BY <1>3, <2>2 DEF Cover
    <2>4. t.kind \notin WindowParts /\ t.kind # "icon"
      BY <1>2, <2>3 DEF Layer, WindowParts, Placed, Kinds
    <2>5. CASE t.kind \in {"dock", "clock", "volume"}
      <3>1. TaskbarHit(t, p) BY <1>2, <1>5, <2>5, HitBy
      <3> QED BY <1>1, <1>2, <1>6, <1>8, <2>1, <2>5, <3>1 DEF TaskbarHit, Between, Placed
    <2>6. CASE t.kind \in {"power", "tile", "entry"}
      <3>1. StartMenuHit(t, p) BY <1>2, <1>5, <2>6, HitBy
      <3> QED BY <1>1, <1>2, <2>2, <2>6, <3>1 DEF StartMenuHit, Between, Placed
    <2> QED BY <1>2, <2>4, <2>5, <2>6 DEF Placed, Kinds
  <1>9. CASE d.kind \in {"power", "tile", "entry"}
    <2>1. StartMenuHit(d, p) BY <1>2, <1>9, HitBy
    <2>2. t.kind \notin {"dock", "clock", "volume"} BY <1>2, <1>7, <1>9, TurnIs
    <2>3. StartOpen BY <1>9 DEF Present, StartOpen
    <2>4. In(p, Box(12, MenuTop, 480, 540))
      BY <1>1, <1>2, <1>9, <2>1 DEF StartMenuHit, Between, Placed, In, Box
    <2>5. ~(Layer(t) < 3) BY <1>3, <2>3, <2>4 DEF Cover
    <2>6. t.kind \in {"power", "tile", "entry"}
      BY <1>2, <2>2, <2>5 DEF Layer, WindowParts, Placed, Kinds
    <2>7. StartMenuHit(t, p) BY <1>2, <1>5, <2>6, HitBy
    <2>8. CASE d.kind = "tile"
      <3>1. t.kind = "tile" BY <1>2, <1>7, <2>6, <2>8, TurnIs
      <3>2. /\ t.col \in 0 .. 3 /\ d.col \in 0 .. 3 /\ t.row \in 0 .. 1 /\ d.row \in 0 .. 1
        BY <1>2, <2>8, <3>1 DEF Placed
      <3>3. /\ 32 + 110 * t.col <= p[1] /\ p[1] <= 134 + 110 * t.col
            /\ MenuTop + 96 + 78 * t.row <= p[2] /\ p[2] <= MenuTop + 166 + 78 * t.row
            /\ 32 + 110 * d.col <= p[1] /\ p[1] <= 134 + 110 * d.col
            /\ MenuTop + 96 + 78 * d.row <= p[2] /\ p[2] <= MenuTop + 166 + 78 * d.row
        BY <2>1, <2>7, <2>8, <3>1 DEF StartMenuHit, Between
      <3>4. t.col = d.col BY <1>1, <3>2, <3>3
      <3>5. t.row = d.row BY <1>1, <3>2, <3>3
      <3> QED BY <1>6, <2>8, <3>1, <3>4, <3>5
    <2>9. CASE d.kind = "entry"
      <3>1. d.row \in 0 .. 2 /\ t.row \in 0 .. 2 /\ t.row \in Int BY <1>2, <2>6, <2>9 DEF Placed
      <3>2. /\ PowerTop + 8 + 36 * d.row <= p[2] /\ p[2] <= PowerTop + 40 + 36 * d.row
        BY <2>1, <2>9 DEF StartMenuHit, Between
      <3>3. t.kind = "entry" \/ t.kind = "tile" BY <1>2, <1>7, <2>6, <2>9, TurnIs
      <3>4. CASE t.kind = "tile"
        <4>1. p[2] <= MenuTop + 166 + 78 * t.row /\ t.row <= 1
          BY <1>2, <2>7, <3>4 DEF StartMenuHit, Between, Placed
        <4> QED BY <1>1, <3>1, <3>2, <4>1
      <3>5. CASE t.kind = "entry"
        <4>1. /\ PowerTop + 8 + 36 * t.row <= p[2] /\ p[2] <= PowerTop + 40 + 36 * t.row
          BY <2>7, <3>5 DEF StartMenuHit, Between
        <4>2. t.row = d.row BY <1>1, <3>1, <3>2, <4>1
        <4> QED BY <1>2, <1>6, <2>9, <3>5, <4>2 DEF Placed
      <3> QED BY <3>3, <3>4, <3>5
    <2>10. CASE d.kind = "power"
      <3>1. UserBar + 11 <= p[2] BY <2>1, <2>10 DEF StartMenuHit, Between
      <3>2. t.kind # "power" BY <1>2, <1>6, <2>10 DEF Placed
      <3>3. t.row \in Int /\ t.row <= 2 /\ (t.kind = "tile" => t.row <= 1) BY <1>2, <2>6 DEF Placed
      <3> QED BY <1>1, <2>6, <2>7, <3>1, <3>2, <3>3 DEF StartMenuHit, Between
    <2> QED BY <1>9, <2>8, <2>9, <2>10
  <1>10. CASE d.kind \in WindowParts
    <2>1. WindowHit(d, p) BY <1>2, <1>10, HitBy
    <2>2. t.kind \in WindowParts \/ t.kind = "icon"
      BY <1>2, <1>7, <1>10, TurnIs DEF Placed, Kinds
    <2>3. Drawn BY <1>10 DEF Present
    <2>4. In(p, Box(frame.left, frame.top, frame.width + 6, frame.height + 6))
      BY <1>1, <1>4, <2>1 DEF WindowHit, Between, In, Box
    <2>5. ~(Layer(t) < 1) BY <1>3, <2>3, <2>4 DEF Cover
    <2>6. t.kind \in WindowParts
      BY <2>2, <2>5 DEF Layer
    <2>7. WindowHit(t, p) BY <1>2, <1>5, <2>6, HitBy
    <2>8. t.kind # d.kind BY <1>2, <1>6, <1>10, <2>6 DEF Placed, WindowParts
    <2> QED BY <1>1, <1>4, <1>10, <2>1, <2>6, <2>7, <2>8 DEF WindowHit, Between, WindowParts
  <1>11. CASE d.kind = "icon"
    <2>1. t.kind = "icon"
      BY <1>2, <1>7, <1>11, TurnIs DEF Placed, Kinds
    <2>2. IconHit(d, p) /\ IconHit(t, p) BY <1>2, <1>5, <1>11, <2>1, HitBy
    <2>3. /\ t.col \in 1 .. 4 /\ d.col \in 1 .. 4 /\ t.row \in Int /\ d.row \in Int
      BY <1>2, <1>11, <2>1 DEF Placed
    <2>4. /\ ColumnLeft[t.col] = IF t.col = 1 THEN 16 ELSE IF t.col = 2 THEN 110
                                 ELSE IF t.col = 3 THEN Width - 200 ELSE Width - 98
          /\ ColumnLeft[d.col] = IF d.col = 1 THEN 16 ELSE IF d.col = 2 THEN 110
                                 ELSE IF d.col = 3 THEN Width - 200 ELSE Width - 98
      BY <2>3 DEF ColumnLeft
    <2>5. t.col = d.col
      BY <1>1, <2>2, <2>3, <2>4 DEF IconHit, Between
    <2>6. t.row = d.row
      <3>1. /\ 14 + 72 * t.row <= p[2] /\ p[2] <= 84 + 72 * t.row
            /\ 14 + 72 * d.row <= p[2] /\ p[2] <= 84 + 72 * d.row
        BY <1>1, <2>2, <2>3 DEF IconHit, Between
      <3> QED BY <1>1, <2>3, <3>1
    <2> QED BY <1>6, <1>11, <2>1, <2>5, <2>6
  <1> QED BY <1>2, <1>8, <1>9, <1>10, <1>11 DEF Placed, Kinds

(* A press lands on what is seen, in any state of the right types. *)
LEMMA SeenIsPressed ==
    ASSUME PointingType PROVE PressesLand
  <1> SUFFICES ASSUME win = "shown" => Drawn, NEW t \in Things, compositor_render(t, mouse), ~Beside(t, mouse),
                      NEW d \in Things
               PROVE  Gets(d, mouse) <=> d = t
    BY DEF PressesLand
  <1>1. HitAt(t, mouse) /\ Present(t) BY Landed DEF compositor_render
  <1>2. Placed(t) /\ Placed(d) BY ThingsArePlaced
  <1>3. Gets(t, mouse)
    <2> SUFFICES ASSUME NEW e \in Things, Present(e), Turn(e) < Turn(t), HitAt(e, mouse) PROVE FALSE
      BY <1>1 DEF Gets
    <2>1. e # t /\ Placed(e) BY <1>2, TurnIs, ThingsArePlaced
    <2>2. Turn(t) < Turn(e) BY <2>1, OthersLater
    <2> QED BY <1>2, <2>1, <2>2, TurnIs
  <1>4. ASSUME d # t, Gets(d, mouse) PROVE FALSE
    <2>1. Present(d) /\ HitAt(d, mouse) BY <1>4 DEF Gets
    <2>2. Turn(t) < Turn(d) BY <1>4, <2>1, OthersLater
    <2> QED BY <1>1, <1>4, <2>2 DEF Gets
  <1> QED BY <1>3, <1>4

(* A drag began beside the buttons and goes on in a shown window. *)
Gripped ==
    grip # NoGrip =>
        /\ 0 <= grip[1] /\ 0 <= grip[2] /\ grip[2] <= TITLEBAR_HEIGHT
        /\ ~is_maximized => grip[1] < frame.width - 126

PointingInv == PointingType /\ WithinReach /\ GripHolds /\ Gripped

(* A window that was just launched can be reached, ... *)
LEMMA PlacesAreReached ==
    ASSUME NEW b \in LaunchPlace PROVE b \in WindowBox /\ Reached(b)
  <1>1. b \in WindowBox /\ b.left \in 0 .. Width - 127 /\ b.top \in 0 .. Height - 84
    BY PointingAssumption DEF WindowBox
  <1>2. b.left \in 0 .. Width - 1 /\ b.left <= b.left /\ b.left < b.left + b.width - 126
    BY <1>1, PointingAssumption DEF WindowBox
  <1> QED BY <1>1, <1>2, PointingAssumption DEF Reached, TITLEBAR_HEIGHT, TaskbarTop, TASKBAR_HEIGHT, WindowBox

(* ... and so can one that fills the screen above the taskbar. *)
LEMMA FullIsReached ==
    Box(0, 0, Width, TaskbarTop) \in WindowBox /\ Reached(Box(0, 0, Width, TaskbarTop))
  <1>1. 0 \in 0 .. Width - 1 /\ 0 <= 0 /\ 0 < 0 + Width - 126 BY PointingAssumption
  <1> QED BY <1>1, PointingAssumption
      DEF Box, WindowBox, Reached, TITLEBAR_HEIGHT, TaskbarTop, TASKBAR_HEIGHT

(* No window is open and nothing is dragged at first. *)
LEMMA PointingStarts == PointingInit => PointingInv
  BY PlacesAreReached DEF PointingInit, PointingInv, PointingType, WithinReach, GripHolds, Gripped, NoGrip

(* What a press may do to the window, the drag and the menu. *)
PressOutcome(p) ==
    \/ window' = window /\ grip' = grip
    \/ Launched /\ grip' = grip
    \/ win' \in {"closed", "minimized", "shown"} /\ UNCHANGED <<frame, kept, is_maximized, grip>>
    \/ window_maximize /\ grip' = grip
    \/ /\ win = "shown" /\ WindowHit(Thing("title", 0, 0), p)
       /\ grip' = <<p[1] - frame.left, p[2] - frame.top>>
       /\ UNCHANGED <<win, frame, kept, is_maximized>>

(* A press has one of these outcomes, whichever test it passes. *)
LEMMA PressesLeadThere ==
    ASSUME PointingType, NEW p \in Point, PressAt(p)
    PROVE  /\ down = FALSE /\ down' = TRUE /\ mouse' = p
           /\ PressOutcome(p)
           /\ menu' \in {"none", "start", "power", "calendar", "volume"}
  <1> USE DEF PressOutcome
  <1>1. down = FALSE /\ down' = TRUE /\ mouse' = p BY DEF PressAt, PointingType
  <1>2. ASSUME NEW m \in {"start", "calendar", "volume"}, ToggleMenu(m)
        PROVE  menu' \in {"none", "start", "power", "calendar", "volume"}
    BY <1>2 DEF ToggleMenu
  <1>3. ASSUME MenuLeft(p) PROVE menu' \in {"none", "start", "power", "calendar", "volume"}
    BY <1>3 DEF MenuLeft, PointingType
  <1>4. CASE \A t \in Things : ~Gets(t, p)
    BY <1>1, <1>3, <1>4 DEF PressAt
  <1>5. ASSUME NEW t \in Things, Gets(t, p), t.kind = "dock", PressDock(t), UNCHANGED grip
        PROVE  PressOutcome(p) /\ menu' \in {"none", "start", "power", "calendar", "volume"}
    BY <1>5, <1>2 DEF PressDock, window, PointingType
  <1>6. ASSUME NEW t \in Things, Gets(t, p), t.kind \in WindowParts, PressPart(t, p), MenuLeft(p)
        PROVE  PressOutcome(p) /\ menu' \in {"none", "start", "power", "calendar", "volume"}
    <2>1. menu' \in {"none", "start", "power", "calendar", "volume"} BY <1>6, <1>3
    <2>2. Placed(t) /\ win = "shown" BY <1>6, ThingsArePlaced DEF Gets, Present
    <2>3. ASSUME t.kind = "title", grip' = <<p[1] - frame.left, p[2] - frame.top>>,
                 UNCHANGED <<win, frame, kept, is_maximized>>
          PROVE  PressOutcome(p)
      <3>1. WindowHit(t, p) BY <1>6, <2>2, HitBy DEF Gets
      <3>2. WindowHit(Thing("title", 0, 0), p) BY <2>3, <3>1 DEF WindowHit, Thing
      <3> QED BY <2>2, <2>3, <3>2
    <2>4. PressOutcome(p) BY <1>6, <2>2, <2>3 DEF PressPart, WindowParts
    <2> QED BY <2>1, <2>4
  <1>7. ASSUME NEW t \in Things, Gets(t, p), t.kind = "tile", PressTile, UNCHANGED grip
        PROVE  PressOutcome(p) /\ menu' \in {"none", "start", "power", "calendar", "volume"}
    BY <1>7 DEF PressTile, window
  <1>8. ASSUME NEW t \in Things, PressEntry(t), UNCHANGED grip
        PROVE  PressOutcome(p) /\ menu' \in {"none", "start", "power", "calendar", "volume"}
    BY <1>8 DEF PressEntry, window
  <1>9. CASE \E t \in Things : Gets(t, p) /\ ~(\A d \in Things : ~Gets(d, p))
    <2> SUFFICES PressOutcome(p) /\ menu' \in {"none", "start", "power", "calendar", "volume"} BY <1>1
    <2> QED BY <1>2, <1>3, <1>4, <1>5, <1>6, <1>7, <1>8 DEF PressAt, window
  <1> QED BY <1>4, <1>9

(* A press keeps the invariant: a drag begins where the title is. *)
LEMMA PressKeepsInv ==
    ASSUME PointingInv, NEW p \in Point, PressAt(p) PROVE PointingInv'
  <1>1. PointingType BY DEF PointingInv
  <1>2. /\ down = FALSE /\ down' = TRUE /\ mouse' = p /\ PressOutcome(p)
        /\ menu' \in {"none", "start", "power", "calendar", "volume"}
    BY <1>1, PressesLeadThere
  <1>3. grip = NoGrip BY <1>2 DEF PointingInv, GripHolds
  <1>4. p[1] \in Int /\ p[2] \in Int BY Screen
  <1>5. CASE window' = window /\ grip' = grip
    BY <1>1, <1>2, <1>3, <1>5 DEF window, PointingInv, PointingType, WithinReach, Reached, GripHolds, Gripped
  <1>6. CASE Launched /\ grip' = grip
    BY <1>1, <1>2, <1>3, <1>6, PlacesAreReached
    DEF Launched, PointingInv, PointingType, WithinReach, Reached, GripHolds, Gripped
  <1>7. CASE win' \in {"closed", "minimized", "shown"} /\ UNCHANGED <<frame, kept, is_maximized, grip>>
    BY <1>1, <1>2, <1>3, <1>7 DEF PointingInv, PointingType, WithinReach, Reached, GripHolds, Gripped
  <1>8. CASE window_maximize /\ grip' = grip
    BY <1>1, <1>2, <1>3, <1>8, FullIsReached
    DEF window_maximize, PointingInv, PointingType, WithinReach, Reached, GripHolds, Gripped
  <1>9. CASE /\ win = "shown" /\ WindowHit(Thing("title", 0, 0), p)
             /\ grip' = <<p[1] - frame.left, p[2] - frame.top>>
             /\ UNCHANGED <<win, frame, kept, is_maximized>>
    <2>1. frame \in WindowBox BY <1>1 DEF PointingType
    <2>2. /\ frame.left \in Int /\ frame.top \in Int /\ frame.width \in Int /\ frame.height \in Int
      BY <2>1 DEF WindowBox
    <2>3. /\ frame.left <= p[1] /\ p[1] < frame.left + frame.width - 126
          /\ frame.top <= p[2] /\ p[2] <= frame.top + TITLEBAR_HEIGHT
      BY <1>9, <2>2, <1>4 DEF WindowHit, Thing, Between
    <2>4. /\ UNCHANGED <<frame, kept, is_maximized, win>>
      BY <1>9
    <2>5. PointingType' BY <1>1, <1>2, <1>4, <1>9, <2>2, <2>4 DEF PointingType
    <2>6. WithinReach' BY <2>4 DEF PointingInv, WithinReach, Reached
    <2>7. grip'[1] = p[1] - frame.left /\ grip'[2] = p[2] - frame.top BY <1>9
    <2>8. Gripped' BY <1>4, <2>2, <2>3, <2>4, <2>7 DEF Gripped, TITLEBAR_HEIGHT
    <2>9. GripHolds' BY <1>2, <1>4, <1>9, <2>2, <2>3, <2>4, <2>7 DEF GripHolds
    <2> QED BY <2>5, <2>6, <2>8, <2>9 DEF PointingInv
  <1> QED BY <1>2, <1>5, <1>6, <1>7, <1>8, <1>9 DEF PressOutcome

(* Moving keeps it: a dragged window follows inside the screen. *)
LEMMA MoveKeepsInv ==
    ASSUME PointingInv, NEW p \in Point, MoveTo(p) PROVE PointingInv'
  <1>1. PointingType BY DEF PointingInv
  <1>2. /\ mouse' = p /\ UNCHANGED <<down, win, kept, is_maximized, grip, menu>> BY DEF MoveTo
  <1>3. CASE frame' = frame /\ (grip = NoGrip \/ is_maximized)
    BY <1>1, <1>2, <1>3 DEF PointingInv, PointingType, WithinReach, Reached, GripHolds, Gripped
  <1>4. CASE grip # NoGrip /\ ~is_maximized
    <2> DEFINE y == p[2] - grip[2]
               low == TaskbarTop - TITLEBAR_HEIGHT
               top == IF y < 0 THEN 0 ELSE IF y > low THEN low ELSE y
    <2>1. frame' = [frame EXCEPT !.left = p[1] - grip[1], !.top = top]
      BY <1>4 DEF MoveTo, window_move
    <2>2. /\ p[1] \in Int /\ p[2] \in Int /\ 0 <= p[1] /\ p[1] < Width /\ 0 <= p[2] /\ p[2] < Height
          /\ Height \in Int /\ Height >= 600 /\ Width \in Int
      BY Screen
    <2>3. grip[1] \in Int /\ grip[2] \in Int BY <1>1, <1>4 DEF PointingType
    <2>4. frame \in WindowBox BY <1>1 DEF PointingType
    <2>5. low \in Int /\ low >= 0 /\ low + TITLEBAR_HEIGHT <= TaskbarTop
      BY <2>2 DEF TaskbarTop, TITLEBAR_HEIGHT, TASKBAR_HEIGHT
    <2>6. top \in Int /\ 0 <= top /\ top + TITLEBAR_HEIGHT <= TaskbarTop
      BY <2>2, <2>3, <2>5 DEF TITLEBAR_HEIGHT, TaskbarTop, TASKBAR_HEIGHT
    <2> HIDE DEF top
    <2>7. /\ frame'.left = p[1] - grip[1] /\ frame'.top = top
          /\ frame'.width = frame.width /\ frame'.height = frame.height
          /\ frame' \in WindowBox
      <3> DEFINE F == [left |-> p[1] - grip[1], top |-> top, width |-> frame.width, height |-> frame.height]
      <3>1. frame' = F
        BY <2>1, <2>4 DEF WindowBox
      <3>2. p[1] - grip[1] \in Int BY <2>2, <2>3
      <3>3. frame.width \in Nat \ (0 .. 126) /\ frame.height \in Nat \ (0 .. 36) BY <2>4 DEF WindowBox
      <3>4. F \in WindowBox BY <2>6, <3>2, <3>3 DEF WindowBox
      <3> QED BY <3>1, <3>4
    <2>8. PointingType' BY <1>1, <1>2, <2>7 DEF PointingType
    <2>9. /\ 0 <= grip[1] /\ grip[1] < frame.width - 126 /\ frame.width \in Int
      BY <1>4, <2>4 DEF PointingInv, Gripped, WindowBox
    <2>10. Reached(frame')
      <3>1. p[1] \in 0 .. Width - 1 /\ frame'.left <= p[1] /\ p[1] < frame'.left + frame'.width - 126
        BY <2>2, <2>3, <2>7, <2>9
      <3>2. 0 <= frame'.top /\ frame'.top + TITLEBAR_HEIGHT <= TaskbarTop BY <2>6, <2>7
      <3> QED BY <3>1, <3>2 DEF Reached
    <2>11. WithinReach'
      <3>1. Reached(kept) BY DEF PointingInv, WithinReach
      <3>2. Reached(kept') BY <1>2, <3>1
      <3> QED BY <2>10, <3>2 DEF WithinReach, Reached, TaskbarTop
    <2>12. Gripped'
      BY <1>2, <2>7 DEF PointingInv, Gripped
    <2>13. GripHolds'
      <3>1. mouse'[1] = frame'.left + grip'[1] BY <1>2, <2>2, <2>3, <2>7
      <3>2. \/ mouse'[2] = frame'.top + grip'[2]
            \/ frame'.top = 0 /\ mouse'[2] < grip'[2]
            \/ frame'.top = TaskbarTop - TITLEBAR_HEIGHT /\ mouse'[2] > frame'.top + grip'[2]
        BY <1>2, <2>2, <2>3, <2>5, <2>7 DEF top
      <3>3. down' /\ win' = "shown" BY <1>2, <1>4 DEF PointingInv, GripHolds
      <3> QED BY <3>1, <3>2, <3>3 DEF GripHolds, TaskbarTop
    <2> QED BY <2>8, <2>11, <2>12, <2>13 DEF PointingInv
  <1>5. frame' = frame \/ (grip # NoGrip /\ ~is_maximized) BY DEF MoveTo, window_move
  <1>6. (frame' = frame /\ (grip = NoGrip \/ is_maximized)) \/ (grip # NoGrip /\ ~is_maximized)
    BY <1>1 DEF MoveTo, window_move, PointingType
  <1> QED BY <1>3, <1>4, <1>6

(* Every step of the pointer keeps the invariant. *)
LEMMA PointingSteps == PointingInv /\ [PointingNext]_pointingVars => PointingInv'
  <1> SUFFICES ASSUME PointingInv, [PointingNext]_pointingVars PROVE PointingInv' OBVIOUS
  <1>1. CASE UNCHANGED pointingVars
    BY <1>1 DEF pointingVars, PointingInv, PointingType, WithinReach, Reached, GripHolds, Gripped
  <1>2. ASSUME NEW p \in Point, ReleaseAt(p) PROVE PointingInv'
    BY <1>2 DEF ReleaseAt, window, PointingInv, PointingType, WithinReach, Reached, GripHolds, Gripped
  <1> QED BY <1>1, <1>2, PressKeepsInv, MoveKeepsInv DEF PointingNext

(* On a screen of any size the code supports a dragged window stays under the
   pointer, a window can always be reached again, and, as long as a window that
   is there is drawn at all, whatever is seen is what a press there acts on, but
   for the left edges of the cards of the clock and of the volume
   (compositor_render, compositor_update_mouse).                            *)
THEOREM PointingStays == PointingSpec => [](WithinReach /\ GripHolds /\ PressesLand)
  <1>1. PointingInv => WithinReach /\ GripHolds /\ PressesLand
    BY SeenIsPressed DEF PointingInv
  <1> QED BY <1>1, PointingStarts, PointingSteps, PTL DEF PointingSpec

-----------------------------------------------------------------------------
(* The applications. *)

(* The player's track and second. *)
PlayerOk == /\ current_track \in 1 .. Len(Length)
            /\ current_sec \in 0 .. Length[current_track]

(* An installation is done exactly at its end. *)
InstallerOk == /\ progress \in 0 .. 10 /\ stage \in 0 .. 3
               /\ stage = 3 <=> progress = 10
               /\ installing => progress < 10

(* A copy is complete exactly when every sector is copied. *)
ClonerOk == /\ clone_state \in {"idle", "cloning", "paused", "complete"}
            /\ current_lba \in 0 .. Sectors
            /\ clone_state = "complete" <=> current_lba = Sectors
            /\ clone_state = "idle" => current_lba = 0

(* The selected row is one of the table, and only rows that may be are ended. *)
TaskmgrOk == /\ selected_proc \in 0 .. MaxProcesses - 1
             /\ ended \subseteq (0 .. MaxProcesses - 1) \ Protected

(* The terminal shows the last lines that were written. *)
TerminalOk == /\ said \in Nat /\ term_lines \in Seq(Int)
              /\ \A i \in 1 .. Len(term_lines) : term_lines[i] = said - Len(term_lines) + i

(* The explorer has one thing selected. *)
ExplorerOk == selected_folder # -1 => selected_drive = 0

(* All of them together. *)
AppsInv == PlayerOk /\ InstallerOk /\ ClonerOk /\ TaskmgrOk /\ TerminalOk /\ ExplorerOk

(* Every track of the playlist has a length. *)
LEMMA Tracks == /\ Len(Length) \in Nat \ {0} /\ DOMAIN Length = 1 .. Len(Length)
                /\ \A t \in 1 .. Len(Length) : Length[t] \in Nat \ {0}
  BY AppsAssumption, LenProperties, ElementOfSeq

(* The applications begin in step. *)
LEMMA AppsStart == AppsInit => AppsInv
  <1> SUFFICES ASSUME AppsInit PROVE AppsInv OBVIOUS
  <1>1. PlayerOk
    <2>1. 1 \in 1 .. Len(Length) BY Tracks
    <2>2. Length[1] \in Nat BY <2>1, Tracks
    <2> QED BY <2>1, <2>2 DEF PlayerOk, AppsInit
  <1>2. InstallerOk
    <2>1. progress = 0 /\ stage = 0 BY DEF AppsInit
    <2> QED BY <2>1 DEF InstallerOk
  <1>3. ClonerOk BY AppsAssumption DEF ClonerOk, AppsInit
  <1>4. TaskmgrOk BY AppsAssumption DEF TaskmgrOk, AppsInit
  <1>5. TerminalOk BY EmptySeq DEF TerminalOk, AppsInit
  <1>6. ExplorerOk BY DEF ExplorerOk, AppsInit
  <1> QED BY <1>1, <1>2, <1>3, <1>4, <1>5, <1>6 DEF AppsInv

(* The track after one and the track before it. *)
LEMMA NextTrack ==
    ASSUME NEW t \in 1 .. Len(Length)
    PROVE  (t % Len(Length)) + 1 \in 1 .. Len(Length) /\ ((t - 2) % Len(Length)) + 1 \in 1 .. Len(Length)
  <1> DEFINE n == Len(Length)
  <1>1. n \in Nat /\ n > 0 BY Tracks
  <1> HIDE DEF n
  <1>2. t % n \in 0 .. n - 1 /\ (t - 2) % n \in 0 .. n - 1 BY <1>1
  <1> QED BY <1>1, <1>2 DEF n

Plays(t, s, p) == t \in Track /\ s \in 0 .. Length[t] /\ Play(t, s, p)

(* The player stays inside its track. *)
LEMMA PlayerKeeps ==
    ASSUME PlayerOk, vlc_app_tick \/ (\E t, s, p : Plays(t, s, p))
    PROVE  PlayerOk'
  <1>1. CASE vlc_app_tick
    <2>1. CASE UNCHANGED player BY <2>1 DEF PlayerOk, player
    <2>2. CASE ~UNCHANGED player
      <3>1. current_track \in 1 .. Len(Length) /\ current_sec \in 0 .. Length[current_track]
            /\ Length[current_track] \in Nat
        BY Tracks DEF PlayerOk
      <3>2. CASE current_sec + 1 >= Length[current_track]
        <4>1. current_track' = (current_track % Len(Length)) + 1 /\ current_sec' = 0
              /\ UNCHANGED is_playing
          BY <1>1, <2>2, <3>2 DEF vlc_app_tick
        <4>2. current_track' \in 1 .. Len(Length) BY <3>1, <4>1, NextTrack
        <4>3. Length[current_track'] \in Nat BY <4>2, Tracks
        <4> QED BY <4>1, <4>2, <4>3 DEF PlayerOk
      <3>3. CASE ~(current_sec + 1 >= Length[current_track])
        BY <1>1, <2>2, <3>1, <3>3 DEF vlc_app_tick, PlayerOk
      <3> QED BY <3>2, <3>3
    <2> QED BY <2>1, <2>2
  <1>2. CASE \E t, s, p : Plays(t, s, p)
    BY <1>2, Tracks DEF PlayerOk, Plays, Play, Track
  <1> QED BY <1>1, <1>2

(* Every press of the player's buttons plays inside a track. *)
LEMMA VlcPlays ==
    ASSUME PlayerOk, on_vlc_mouse
    PROVE  \E t, s, p : Plays(t, s, p)
  <1>1. /\ current_track \in Track /\ current_sec \in 0 .. Length[current_track]
    BY Tracks DEF PlayerOk, Track
  <1>2. \A t \in Track : 0 \in 0 .. Length[t] BY Tracks DEF Track
  <1>3. /\ (current_track % Len(Length)) + 1 \in Track
        /\ ((current_track - 2) % Len(Length)) + 1 \in Track
    BY <1>1, NextTrack, Tracks DEF Track
  <1>4. CASE Play(current_track, current_sec, ~is_playing)
    <2>1. Plays(current_track, current_sec, ~is_playing) BY <1>1, <1>4 DEF Plays
    <2> QED BY <2>1
  <1>5. CASE \E s \in 0 .. Length[current_track] : Play(current_track, s, is_playing)
    <2>1. PICK s \in 0 .. Length[current_track] : Play(current_track, s, is_playing) BY <1>5
    <2>2. Plays(current_track, s, is_playing) BY <1>1, <2>1 DEF Plays
    <2> QED BY <2>2
  <1>6. CASE Play(current_track, 0, FALSE)
    <2>1. Plays(current_track, 0, FALSE) BY <1>1, <1>2, <1>6 DEF Plays
    <2> QED BY <2>1
  <1>7. ASSUME NEW t \in Track, NEW p, Play(t, 0, p) PROVE \E u, s, q : Plays(u, s, q)
    <2>1. Plays(t, 0, p) BY <1>2, <1>7 DEF Plays
    <2> QED BY <2>1
  <1> QED BY <1>1, <1>3, <1>4, <1>5, <1>6, <1>7 DEF on_vlc_mouse

(* Ticks, and presses in the windows that tick. *)
LEMMA TickingKeeps == AppsInv /\ TickingNext => PlayerOk' /\ InstallerOk' /\ ClonerOk'
  <1> SUFFICES ASSUME AppsInv, TickingNext PROVE PlayerOk' /\ InstallerOk' /\ ClonerOk'
    OBVIOUS
  <1>1. PlayerOk /\ InstallerOk /\ ClonerOk BY DEF AppsInv
  <1>2. ASSUME UNCHANGED player PROVE PlayerOk' BY <1>1, <1>2 DEF PlayerOk, player
  <1>3. ASSUME UNCHANGED installer PROVE InstallerOk' BY <1>1, <1>3 DEF InstallerOk, installer
  <1>4. ASSUME UNCHANGED cloner PROVE ClonerOk' BY <1>1, <1>4 DEF ClonerOk, cloner
  <1>5. CASE compositor_tick
    <2>1. PlayerOk' BY <1>1, <1>5, PlayerKeeps DEF compositor_tick
    <2>2. InstallerOk'
      <3>1. CASE installing
        <4>1. progress \in 0 .. 9 BY <1>1, <3>1 DEF InstallerOk
        <4>2. progress' = progress + 1
              /\ stage' = (IF progress' <= 2 THEN 0 ELSE IF progress' <= 5 THEN 1
                           ELSE IF progress' <= 9 THEN 2 ELSE 3)
              /\ installing' = (progress' < 10)
          BY <1>5, <3>1 DEF compositor_tick, installer_app_tick
        <4>3. progress' \in 0 .. 10 /\ stage' \in 0 .. 3 /\ (stage' = 3 <=> progress' = 10)
          BY <4>1, <4>2
        <4>4. installing' => progress' < 10
          <5>1. installing' = (progress' < 10) BY <4>2
          <5> QED BY <5>1, Zenon
        <4> QED BY <4>3, <4>4 DEF InstallerOk
      <3>2. CASE ~installing BY <1>3, <1>5, <3>2 DEF compositor_tick, installer_app_tick
      <3> QED BY <3>1, <3>2
    <2>3. ClonerOk'
      <3>1. CASE clone_state = "cloning"
        <4>1. current_lba \in 0 .. Sectors - 1 BY <1>1, <3>1, AppsAssumption DEF ClonerOk
        <4>2. current_lba' = current_lba + 1
              /\ clone_state' = (IF current_lba' >= Sectors THEN "complete" ELSE "cloning")
          BY <1>5, <3>1 DEF compositor_tick, diskclone_app_tick
        <4> QED BY <4>1, <4>2, AppsAssumption DEF ClonerOk
      <3>2. CASE clone_state # "cloning"
        BY <1>4, <1>5, <3>2 DEF compositor_tick, diskclone_app_tick
      <3> QED BY <3>1, <3>2
    <2> QED BY <2>1, <2>2, <2>3
  <1>6. CASE on_vlc_mouse
    <2>1. UNCHANGED installer /\ UNCHANGED cloner BY <1>6 DEF on_vlc_mouse
    <2>2. PlayerOk' BY <1>1, <1>6, PlayerKeeps, VlcPlays
    <2> QED BY <1>3, <1>4, <2>1, <2>2
  <1>7. CASE on_installer_mouse
    <2>1. UNCHANGED player /\ UNCHANGED cloner BY <1>7 DEF on_installer_mouse
    <2>2. InstallerOk' BY <1>7 DEF on_installer_mouse, InstallerOk
    <2> QED BY <1>2, <1>4, <2>1, <2>2
  <1>8. CASE on_diskclone_mouse
    <2>1. UNCHANGED player /\ UNCHANGED installer BY <1>8 DEF on_diskclone_mouse
    <2>2. ClonerOk' BY <1>1, <1>8, AppsAssumption DEF on_diskclone_mouse, ClonerOk
    <2> QED BY <1>2, <1>3, <2>1, <2>2
  <1> QED BY <1>5, <1>6, <1>7, <1>8 DEF TickingNext

(* A line more: after it the terminal still shows the last ones. *)
LEMMA LineKeeps ==
    ASSUME TerminalOk, said' = said + 1, term_add_line(said')
    PROVE  TerminalOk'
  <1>1. said \in Nat /\ term_lines \in Seq(Int) /\ said' \in Nat /\ said' \in Int
        /\ \A i \in 1 .. Len(term_lines) : term_lines[i] = said - Len(term_lines) + i
    BY DEF TerminalOk
  <1>2. Len(term_lines) \in Nat BY <1>1, LenProperties
  <1>3. CASE Len(term_lines) < MaxTermLines
    <2>1. term_lines' = Append(term_lines, said') BY <1>3 DEF term_add_line
    <2>2. /\ term_lines' \in Seq(Int) /\ Len(term_lines') = Len(term_lines) + 1
          /\ \A i \in 1 .. Len(term_lines) : term_lines'[i] = term_lines[i]
          /\ term_lines'[Len(term_lines) + 1] = said'
      BY <1>1, <2>1, AppendProperties
    <2>3. ASSUME NEW i \in 1 .. Len(term_lines')
          PROVE  term_lines'[i] = said' - Len(term_lines') + i
      <3>1. CASE i = Len(term_lines) + 1 BY <1>1, <1>2, <2>2, <3>1
      <3>2. CASE i \in 1 .. Len(term_lines) BY <1>1, <1>2, <2>2, <3>2
      <3> QED BY <1>2, <2>2, <3>1, <3>2
    <2> QED BY <1>1, <2>2, <2>3 DEF TerminalOk
  <1>4. CASE ~(Len(term_lines) < MaxTermLines)
    <2> DEFINE rest == Tail(term_lines)
    <2>1. term_lines' = Append(rest, said') BY <1>4 DEF term_add_line
    <2>2. term_lines # << >> BY <1>2, <1>4, AppsAssumption, EmptySeq
    <2>3. /\ rest \in Seq(Int) /\ Len(rest) = Len(term_lines) - 1
          /\ \A i \in 1 .. Len(rest) : rest[i] = term_lines[i + 1]
      BY <1>1, <2>2, HeadTailProperties
    <2> HIDE DEF rest
    <2>4. /\ term_lines' \in Seq(Int) /\ Len(term_lines') = Len(rest) + 1
          /\ \A i \in 1 .. Len(rest) : term_lines'[i] = rest[i]
          /\ term_lines'[Len(rest) + 1] = said'
      BY <1>1, <2>1, <2>3, AppendProperties
    <2>5. ASSUME NEW i \in 1 .. Len(term_lines')
          PROVE  term_lines'[i] = said' - Len(term_lines') + i
      <3>1. CASE i = Len(rest) + 1 BY <1>1, <1>2, <2>3, <2>4, <3>1
      <3>2. CASE i \in 1 .. Len(rest)
        <4>1. term_lines'[i] = term_lines[i + 1] BY <2>3, <2>4, <3>2
        <4>2. i + 1 \in 1 .. Len(term_lines) BY <1>2, <2>3, <3>2
        <4>3. term_lines[i + 1] = said - Len(term_lines) + (i + 1) BY <1>1, <4>2
        <4> QED BY <1>1, <1>2, <2>3, <2>4, <3>2, <4>1, <4>3
      <3> QED BY <1>2, <2>3, <2>4, <3>1, <3>2
    <2> QED BY <1>1, <2>4, <2>5 DEF TerminalOk
  <1> QED BY <1>3, <1>4

(* Presses and keys in the windows that only answer. *)
LEMMA AnsweringKeeps == AppsInv /\ AnsweringNext => TaskmgrOk' /\ TerminalOk' /\ ExplorerOk'
  <1> SUFFICES ASSUME AppsInv, AnsweringNext PROVE TaskmgrOk' /\ TerminalOk' /\ ExplorerOk'
    OBVIOUS
  <1>1. TaskmgrOk /\ TerminalOk /\ ExplorerOk BY DEF AppsInv
  <1>2. ASSUME UNCHANGED taskmgr PROVE TaskmgrOk' BY <1>1, <1>2 DEF TaskmgrOk, taskmgr
  <1>3. ASSUME UNCHANGED terminal PROVE TerminalOk' BY <1>1, <1>3 DEF TerminalOk, terminal
  <1>4. ASSUME UNCHANGED explorer PROVE ExplorerOk' BY <1>1, <1>4 DEF ExplorerOk, explorer
  <1>5. CASE on_taskmgr_mouse
    <2>1. UNCHANGED explorer /\ UNCHANGED terminal BY <1>5 DEF on_taskmgr_mouse
    <2>2. PICK y \in ClickY :
             /\ y >= 100
             /\ selected_proc' = Row(y, selected_proc)
             /\ ended' \in {ended} \cup {ended \cup {p} : p \in {selected_proc'} \ Protected}
      BY <1>5 DEF on_taskmgr_mouse
    <2>3. y \in Nat /\ selected_proc \in 0 .. MaxProcesses - 1 /\ MaxProcesses \in Nat
      BY <1>1, AppsAssumption DEF TaskmgrOk
    <2>4. (y - 100) \div 28 \in Nat BY <2>2, <2>3
    <2>5. selected_proc' \in 0 .. MaxProcesses - 1 BY <2>2, <2>3, <2>4 DEF Row
    <2> QED BY <1>1, <1>3, <1>4, <2>1, <2>2, <2>5 DEF TaskmgrOk
  <1>6. CASE on_explorer_select
    <2>1. UNCHANGED taskmgr /\ UNCHANGED terminal BY <1>6 DEF on_explorer_select
    <2>2. ExplorerOk' BY <1>6 DEF on_explorer_select, ExplorerOk
    <2> QED BY <1>2, <1>3, <2>1, <2>2
  <1>7. CASE execute_command
    <2>1. UNCHANGED taskmgr /\ UNCHANGED explorer BY <1>7 DEF execute_command
    <2>2. ASSUME term_lines' = << >>, UNCHANGED said PROVE TerminalOk'
      <3>1. term_lines' \in Seq(Int) /\ Len(term_lines') = 0 BY <2>2, EmptySeq
      <3>2. said' \in Nat BY <1>1, <2>2 DEF TerminalOk
      <3> QED BY <3>1, <3>2 DEF TerminalOk
    <2>3. ASSUME said' = said + 1, term_add_line(said') PROVE TerminalOk'
      BY <1>1, <2>3, LineKeeps
    <2> QED BY <1>2, <1>4, <1>7, <2>1, <2>2, <2>3 DEF execute_command
  <1> QED BY <1>5, <1>6, <1>7 DEF AnsweringNext

(* Whatever order ticks and presses come in, for playlists, disks and process
   tables of any size, what the applications show goes together (kernel/apps). *)
THEOREM AppsStayInStep == AppsSpec => []AppsAgree
  <1>1. ASSUME AppsInv, [AppsNext]_<<ticking, answering>> PROVE AppsInv'
    <2>1. ASSUME UNCHANGED ticking PROVE PlayerOk' /\ InstallerOk' /\ ClonerOk'
      BY <1>1, <2>1 DEF AppsInv, ticking, player, installer, cloner, PlayerOk, InstallerOk, ClonerOk
    <2>2. ASSUME UNCHANGED answering PROVE TaskmgrOk' /\ TerminalOk' /\ ExplorerOk'
      BY <1>1, <2>2 DEF AppsInv, answering, taskmgr, terminal, explorer, TaskmgrOk, TerminalOk, ExplorerOk
    <2> QED BY <1>1, <2>1, <2>2, TickingKeeps, AnsweringKeeps DEF AppsNext, AppsInv
  <1>2. ASSUME AppsInv PROVE AppsAgree
    <2>1. AppsInStep
      BY <1>2, Tracks DEF AppsInv, AppsInStep, PlayerOk, InstallerOk, ClonerOk, Track
    <2>2. AnswersInStep
      BY <1>2, AppsAssumption DEF AppsInv, AnswersInStep, TaskmgrOk, TerminalOk, ExplorerOk
    <2> QED BY <2>1, <2>2 DEF AppsAgree
  <1> QED BY <1>1, <1>2, AppsStart, PTL DEF AppsSpec

-----------------------------------------------------------------------------
(* The native shell host. *)

(* The process that may run, and the handle that is open, is the last one. *)
MonitorOk ==
    /\ pi \in 0 .. MaxStarts
    /\ monitor \in {"check", "again", "create", "publish", "wait", "close", "forget", "pause", "done"}
    /\ alive \subseteq IF monitor \in {"publish", "wait"} THEN {pi} ELSE {}
    /\ open = IF monitor \in {"publish", "wait", "close"} THEN {pi} ELSE {}

(* The host is told to stop by a request and never told to run again. *)
ServerOk ==
    /\ requests \in Nat
    /\ server \in {"listen", "restore", "stop", "kill", "join", "ended"}
    /\ server \in {"restore", "stop", "kill", "join", "ended"} => requests # 0
    /\ g_running = FALSE => requests # 0
    /\ server \in {"kill", "join", "ended"} => g_running = FALSE
    /\ server = "ended" => monitor = "done"
    /\ g_running \in BOOLEAN

(* Both of them. *)
HostInv == MonitorOk /\ ServerOk

(* Nothing runs at first. *)
LEMMA HostStarts == HostInit => HostInv
  BY NativeHostAssumption DEF HostInit, HostInv, MonitorOk, ServerOk, NoProcess

(* Every step of either thread keeps the invariant. *)
LEMMA HostSteps == HostInv /\ [HostNext]_hostVars => HostInv'
  <1> SUFFICES ASSUME HostInv, [HostNext]_hostVars PROVE HostInv' OBVIOUS
  <1> USE DEF HostInv, MonitorOk, ServerOk
  <1>1. CASE UNCHANGED hostVars BY <1>1 DEF hostVars
  <1>2. CASE Checks BY <1>2 DEF Checks, serverVars
  <1>3. CASE CreateProcessW
    <2>1. UNCHANGED serverVars /\ alive = {} /\ open = {} BY <1>3 DEF CreateProcessW
    <2>2. ServerOk' BY <1>3, <2>1 DEF CreateProcessW, serverVars
    <2>3. CASE pi < MaxStarts /\ pi' = pi + 1 /\ alive' = alive \cup {pi + 1}
               /\ open' = open \cup {pi + 1} /\ monitor' = "publish"
      <3>1. alive' = {pi'} /\ open' = {pi'} BY <2>1, <2>3
      <3>2. pi' \in 0 .. MaxStarts BY <2>3, NativeHostAssumption
      <3> QED BY <2>2, <2>3, <3>1, <3>2
    <2>4. CASE monitor' = "again" /\ UNCHANGED <<pi, alive, open>> BY <2>1, <2>2, <2>4
    <2> QED BY <1>3, <2>3, <2>4 DEF CreateProcessW
  <1>4. CASE Publishes BY <1>4 DEF Publishes, serverVars
  <1>5. CASE WaitForSingleObject BY <1>5 DEF WaitForSingleObject, serverVars
  <1>6. CASE CloseHandle BY <1>6 DEF CloseHandle, serverVars
  <1>7. CASE Sleeps BY <1>7 DEF Sleeps, serverVars
  <1>8. CASE RunPipeServer BY <1>8 DEF RunPipeServer, monitorVars
  <1>9. CASE RestoreExplorerShell BY <1>9 DEF RestoreExplorerShell, monitorVars
  <1>10. CASE Stops BY <1>10 DEF Stops, monitorVars
  <1>11. CASE TerminateProcess BY <1>11 DEF TerminateProcess, monitorVars
  <1>12. CASE Joins BY <1>12 DEF Joins, monitorVars
  <1>13. ASSUME NEW p \in Process, Ends(p) PROVE HostInv'
    BY <1>13 DEF Ends, serverVars, monitorVars
  <1> QED BY <1>1, <1>2, <1>3, <1>4, <1>5, <1>6, <1>7, <1>8, <1>9, <1>10, <1>11, <1>12, <1>13
          DEF HostNext

(* However the monitor's steps and the pipe server's interleave, for any number
   of processes and requests, two desktops never run beside each other, and
   none is left when the host has ended (native_shell_host.cpp). *)
THEOREM NeverTwoDesktops == HostSpec => []OneDesktop
  <1>1. ASSUME HostInv PROVE OneDesktop
    <2>1. Cardinality(alive) <= 1
      <3>1. CASE alive = {} BY <3>1, FS_EmptySet
      <3>2. CASE alive # {}
        <4>1. alive = {pi} BY <1>1, <3>2 DEF HostInv, MonitorOk
        <4>2. Cardinality({pi}) = 1 BY FS_Singleton
        <4> QED BY <4>1, <4>2
      <3> QED BY <3>1, <3>2
    <2>2. server \in {"join", "ended"} => ~g_running BY <1>1 DEF HostInv, ServerOk
    <2>3. server = "ended" => alive = {} /\ open = {} /\ requests > 0
      BY <1>1 DEF HostInv, MonitorOk, ServerOk
    <2> QED BY <2>1, <2>2, <2>3 DEF OneDesktop
  <1> QED BY <1>1, HostStarts, HostSteps, PTL DEF HostSpec

-----------------------------------------------------------------------------
(* The windows of the page. *)

(* A window of the page, and one with given fields. *)
PageWindow == [place : Zone \cup {"free"}, snap : Zone \cup {NoOne}, zIndex : Nat,
               minimized : BOOLEAN, maximized : BOOLEAN, dirty : BOOLEAN]

Win(p, s, z, n, x, d) ==
    [place |-> p, snap |-> s, zIndex |-> z, minimized |-> n, maximized |-> x, dirty |-> d]

(* A table with one window replaced. *)
Put(D, ws, w, r) == [v \in D |-> IF v = w THEN r ELSE ws[v]]

(* A window is made of its fields, ... *)
LEMMA WinIs == ASSUME NEW r \in PageWindow
  PROVE r = Win(r.place, r.snap, r.zIndex, r.minimized, r.maximized, r.dirty)
  BY DEF PageWindow, Win

(* ... which are these, ... *)
LEMMA WinFields ==
    ASSUME NEW p, NEW s, NEW z, NEW n, NEW x, NEW d
    PROVE  /\ Win(p, s, z, n, x, d).place = p /\ Win(p, s, z, n, x, d).zIndex = z
           /\ Win(p, s, z, n, x, d).minimized = n /\ Win(p, s, z, n, x, d).dirty = d
  BY DEF Win

(* ... of these types. *)
LEMMA WinType == \A p \in Zone \cup {"free"}, s \in Zone \cup {NoOne}, z \in Nat, n, x, d \in BOOLEAN :
    Win(p, s, z, n, x, d) \in PageWindow
  BY DEF Win, PageWindow

(* Assignments to a window in the table: its place, ... *)
LEMMA PutPlace ==
    ASSUME NEW D, NEW ws, NEW w \in D, NEW p, NEW s, NEW z, NEW n, NEW x, NEW d, NEW v
    PROVE  [Put(D, ws, w, Win(p, s, z, n, x, d)) EXCEPT ![w].place = v] = Put(D, ws, w, Win(v, s, z, n, x, d))
  <1> DEFINE r == Win(p, s, z, n, x, d)
  <1>1. [r EXCEPT !.place = v] = Win(v, s, z, n, x, d) BY DEF Win
  <1> HIDE DEF r
  <1>2. [Put(D, ws, w, r) EXCEPT ![w].place = v] = Put(D, ws, w, [r EXCEPT !.place = v]) BY DEF Put
  <1> QED BY <1>1, <1>2 DEF r

(* ... its snap zone, ... *)
LEMMA PutSnap ==
    ASSUME NEW D, NEW ws, NEW w \in D, NEW p, NEW s, NEW z, NEW n, NEW x, NEW d, NEW v
    PROVE  [Put(D, ws, w, Win(p, s, z, n, x, d)) EXCEPT ![w].snap = v] = Put(D, ws, w, Win(p, v, z, n, x, d))
  <1> DEFINE r == Win(p, s, z, n, x, d)
  <1>1. [r EXCEPT !.snap = v] = Win(p, v, z, n, x, d) BY DEF Win
  <1> HIDE DEF r
  <1>2. [Put(D, ws, w, r) EXCEPT ![w].snap = v] = Put(D, ws, w, [r EXCEPT !.snap = v]) BY DEF Put
  <1> QED BY <1>1, <1>2 DEF r

(* ... its height, ... *)
LEMMA PutZ ==
    ASSUME NEW D, NEW ws, NEW w \in D, NEW p, NEW s, NEW z, NEW n, NEW x, NEW d, NEW v
    PROVE  [Put(D, ws, w, Win(p, s, z, n, x, d)) EXCEPT ![w].zIndex = v] = Put(D, ws, w, Win(p, s, v, n, x, d))
  <1> DEFINE r == Win(p, s, z, n, x, d)
  <1>1. [r EXCEPT !.zIndex = v] = Win(p, s, v, n, x, d) BY DEF Win
  <1> HIDE DEF r
  <1>2. [Put(D, ws, w, r) EXCEPT ![w].zIndex = v] = Put(D, ws, w, [r EXCEPT !.zIndex = v]) BY DEF Put
  <1> QED BY <1>1, <1>2 DEF r

(* ... whether it is minimized, ... *)
LEMMA PutMin ==
    ASSUME NEW D, NEW ws, NEW w \in D, NEW p, NEW s, NEW z, NEW n, NEW x, NEW d, NEW v
    PROVE  [Put(D, ws, w, Win(p, s, z, n, x, d)) EXCEPT ![w].minimized = v] = Put(D, ws, w, Win(p, s, z, v, x, d))
  <1> DEFINE r == Win(p, s, z, n, x, d)
  <1>1. [r EXCEPT !.minimized = v] = Win(p, s, z, v, x, d) BY DEF Win
  <1> HIDE DEF r
  <1>2. [Put(D, ws, w, r) EXCEPT ![w].minimized = v] = Put(D, ws, w, [r EXCEPT !.minimized = v]) BY DEF Put
  <1> QED BY <1>1, <1>2 DEF r

(* ... maximized, ... *)
LEMMA PutMax ==
    ASSUME NEW D, NEW ws, NEW w \in D, NEW p, NEW s, NEW z, NEW n, NEW x, NEW d, NEW v
    PROVE  [Put(D, ws, w, Win(p, s, z, n, x, d)) EXCEPT ![w].maximized = v] = Put(D, ws, w, Win(p, s, z, n, v, d))
  <1> DEFINE r == Win(p, s, z, n, x, d)
  <1>1. [r EXCEPT !.maximized = v] = Win(p, s, z, n, v, d) BY DEF Win
  <1> HIDE DEF r
  <1>2. [Put(D, ws, w, r) EXCEPT ![w].maximized = v] = Put(D, ws, w, [r EXCEPT !.maximized = v]) BY DEF Put
  <1> QED BY <1>1, <1>2 DEF r

(* ... or to be drawn again. *)
LEMMA PutDirty ==
    ASSUME NEW D, NEW ws, NEW w \in D, NEW p, NEW s, NEW z, NEW n, NEW x, NEW d, NEW v
    PROVE  [Put(D, ws, w, Win(p, s, z, n, x, d)) EXCEPT ![w].dirty = v] = Put(D, ws, w, Win(p, s, z, n, x, v))
  <1> DEFINE r == Win(p, s, z, n, x, d)
  <1>1. [r EXCEPT !.dirty = v] = Win(p, s, z, n, x, v) BY DEF Win
  <1> HIDE DEF r
  <1>2. [Put(D, ws, w, r) EXCEPT ![w].dirty = v] = Put(D, ws, w, [r EXCEPT !.dirty = v]) BY DEF Put
  <1> QED BY <1>1, <1>2 DEF r

(* A table is itself with a window replaced by that window. *)
LEMMA PutSame == ASSUME NEW D, NEW ws \in [D -> PageWindow], NEW w \in D
  PROVE  ws = Put(D, ws, w, Win(ws[w].place, ws[w].snap, ws[w].zIndex, ws[w].minimized, ws[w].maximized, ws[w].dirty))
  <1>1. ws[w] = Win(ws[w].place, ws[w].snap, ws[w].zIndex, ws[w].minimized, ws[w].maximized, ws[w].dirty)
    BY WinIs
  <1> QED BY <1>1 DEF Put

(* What each operation makes of the fields of one window. *)
LEMMA FocusedIs ==
    ASSUME NEW D, NEW ws \in [D -> PageWindow], NEW w \in D
    PROVE  Focused(ws, w) = Put(D, ws, w, Win(ws[w].place, ws[w].snap, _topZ + 1, FALSE,
                                              ws[w].maximized, TRUE))
  <1> DEFINE p == ws[w].place  s == ws[w].snap  z == ws[w].zIndex
             n == ws[w].minimized  x == ws[w].maximized  d == ws[w].dirty
             top == _topZ + 1  no == FALSE  yes == TRUE
             W1 == [ws EXCEPT ![w].zIndex = top]
             W2 == [W1 EXCEPT ![w].minimized = no]
             W3 == [W2 EXCEPT ![w].dirty = yes]
  <1>1. Focused(ws, w) = [ws EXCEPT ![w].zIndex = top, ![w].minimized = no, ![w].dirty = yes]
    BY DEF Focused
  <1>2. ws = Put(D, ws, w, Win(p, s, z, n, x, d)) BY PutSame
  <1> HIDE DEF top, no, yes, p, s, z, n, x, d
  <1>3. W1 = Put(D, ws, w, Win(p, s, top, n, x, d)) BY <1>2, PutZ
  <1>4. [ws EXCEPT ![w].zIndex = top, ![w].minimized = no, ![w].dirty = yes] = W3 OBVIOUS
  <1> HIDE DEF W1
  <1>5. W2 = Put(D, ws, w, Win(p, s, top, no, x, d))
    <2>1. [Put(D, ws, w, Win(p, s, top, n, x, d)) EXCEPT ![w].minimized = no]
        = Put(D, ws, w, Win(p, s, top, no, x, d))
      BY PutMin
    <2> QED BY <1>3, <2>1
  <1> HIDE DEF W2
  <1>6. W3 = Put(D, ws, w, Win(p, s, top, no, x, yes)) BY <1>5, PutDirty
  <1> QED BY <1>1, <1>4, <1>6 DEF top, no, yes, p, s, x

(* What minimize makes of it. *)
LEMMA MinimizedIs ==
    ASSUME NEW D, NEW ws \in [D -> PageWindow], NEW w \in D
    PROVE  [ws EXCEPT ![w].minimized = TRUE, ![w].dirty = TRUE]
         = Put(D, ws, w, Win(ws[w].place, ws[w].snap, ws[w].zIndex, TRUE, ws[w].maximized, TRUE))
  <1> DEFINE p == ws[w].place  s == ws[w].snap  z == ws[w].zIndex
             n == ws[w].minimized  x == ws[w].maximized  d == ws[w].dirty
             yes == TRUE
             W1 == [ws EXCEPT ![w].minimized = yes]
             W2 == [W1 EXCEPT ![w].dirty = yes]
  <1>2. ws = Put(D, ws, w, Win(p, s, z, n, x, d)) BY PutSame
  <1> HIDE DEF yes, p, s, z, n, x, d
  <1>3. W1 = Put(D, ws, w, Win(p, s, z, yes, x, d)) BY <1>2, PutMin
  <1>4. [ws EXCEPT ![w].minimized = yes, ![w].dirty = yes] = W2 OBVIOUS
  <1> HIDE DEF W1
  <1>5. W2 = Put(D, ws, w, Win(p, s, z, yes, x, yes)) BY <1>3, PutDirty
  <1> QED BY <1>4, <1>5 DEF yes, p, s, z, x

(* What applySnap and resize make of it. *)
PlacedAt(ws, w, q, t) == [ws EXCEPT ![w].place = q, ![w].snap = t, ![w].dirty = TRUE]

(* The same, field by field. *)
LEMMA PlacedIs ==
    ASSUME NEW D, NEW ws \in [D -> PageWindow], NEW w \in D, NEW q, NEW t
    PROVE  PlacedAt(ws, w, q, t)
         = Put(D, ws, w, Win(q, t, ws[w].zIndex, ws[w].minimized, ws[w].maximized, TRUE))
  <1> DEFINE p == ws[w].place  s == ws[w].snap  z == ws[w].zIndex
             n == ws[w].minimized  x == ws[w].maximized  d == ws[w].dirty
             yes == TRUE
             W1 == [ws EXCEPT ![w].place = q]
             W2 == [W1 EXCEPT ![w].snap = t]
             W3 == [W2 EXCEPT ![w].dirty = yes]
  <1>2. ws = Put(D, ws, w, Win(p, s, z, n, x, d)) BY PutSame
  <1> HIDE DEF yes, p, s, z, n, x, d
  <1>3. W1 = Put(D, ws, w, Win(q, s, z, n, x, d)) BY <1>2, PutPlace
  <1>4. [ws EXCEPT ![w].place = q, ![w].snap = t, ![w].dirty = yes] = W3 OBVIOUS
  <1> HIDE DEF W1
  <1>5. W2 = Put(D, ws, w, Win(q, t, z, n, x, d))
    <2>1. [Put(D, ws, w, Win(q, s, z, n, x, d)) EXCEPT ![w].snap = t]
        = Put(D, ws, w, Win(q, t, z, n, x, d))
      BY PutSnap
    <2> QED BY <1>3, <2>1
  <1> HIDE DEF W2
  <1>6. W3 = Put(D, ws, w, Win(q, t, z, n, x, yes)) BY <1>5, PutDirty
  <1> QED BY <1>4, <1>6 DEF PlacedAt, yes, z, n, x

(* What move makes of it. *)
LEMMA MovedIs ==
    ASSUME NEW D, NEW ws \in [D -> PageWindow], NEW w \in D, NEW q
    PROVE  [ws EXCEPT ![w].place = q, ![w].dirty = TRUE]
         = Put(D, ws, w, Win(q, ws[w].snap, ws[w].zIndex, ws[w].minimized, ws[w].maximized, TRUE))
  <1> DEFINE p == ws[w].place  s == ws[w].snap  z == ws[w].zIndex
             n == ws[w].minimized  x == ws[w].maximized  d == ws[w].dirty
             yes == TRUE
             W1 == [ws EXCEPT ![w].place = q]
             W2 == [W1 EXCEPT ![w].dirty = yes]
  <1>2. ws = Put(D, ws, w, Win(p, s, z, n, x, d)) BY PutSame
  <1> HIDE DEF yes, p, s, z, n, x, d
  <1>3. W1 = Put(D, ws, w, Win(q, s, z, n, x, d)) BY <1>2, PutPlace
  <1>4. [ws EXCEPT ![w].place = q, ![w].dirty = yes] = W2 OBVIOUS
  <1> HIDE DEF W1
  <1>5. W2 = Put(D, ws, w, Win(q, s, z, n, x, yes)) BY <1>3, PutDirty
  <1> QED BY <1>4, <1>5 DEF yes, s, z, n, x

(* What toggleMaximize makes of it. *)
Maximized(ws, w, q, t) ==
    [ws EXCEPT ![w].maximized = ~@, ![w].dirty = TRUE, ![w].snap = t, ![w].place = q]

(* The same, field by field. *)
LEMMA MaximizedIs ==
    ASSUME NEW D, NEW ws \in [D -> PageWindow], NEW w \in D, NEW q, NEW t
    PROVE  Maximized(ws, w, q, t)
         = Put(D, ws, w, Win(q, t, ws[w].zIndex, ws[w].minimized, ~ws[w].maximized, TRUE))
  <1> DEFINE p == ws[w].place  s == ws[w].snap  z == ws[w].zIndex
             n == ws[w].minimized  x == ws[w].maximized  d == ws[w].dirty
             yes == TRUE  other == ~ws[w].maximized
             W1 == [ws EXCEPT ![w].maximized = other]
             W2 == [W1 EXCEPT ![w].dirty = yes]
             W3 == [W2 EXCEPT ![w].snap = t]
             W4 == [W3 EXCEPT ![w].place = q]
  <1>1. [ws EXCEPT ![w].maximized = ~@, ![w].dirty = yes, ![w].snap = t, ![w].place = q]
      = [ws EXCEPT ![w].maximized = other, ![w].dirty = yes, ![w].snap = t, ![w].place = q]
    OBVIOUS
  <1>2. ws = Put(D, ws, w, Win(p, s, z, n, x, d)) BY PutSame
  <1> HIDE DEF yes, other, p, s, z, n, x, d
  <1>3. W1 = Put(D, ws, w, Win(p, s, z, n, other, d)) BY <1>2, PutMax
  <1>4. [ws EXCEPT ![w].maximized = other, ![w].dirty = yes, ![w].snap = t, ![w].place = q] = W4 OBVIOUS
  <1> HIDE DEF W1
  <1>5. W2 = Put(D, ws, w, Win(p, s, z, n, other, yes)) BY <1>3, PutDirty
  <1> HIDE DEF W2
  <1>6. W3 = Put(D, ws, w, Win(p, t, z, n, other, yes)) BY <1>5, PutSnap
  <1> HIDE DEF W3
  <1>7. W4 = Put(D, ws, w, Win(q, t, z, n, other, yes)) BY <1>6, PutPlace
  <1> QED BY <1>1, <1>4, <1>7 DEF Maximized, yes, other, z, n

(* The windows of a table that can be seen, and the table's order. *)
Seen(ws) == {w \in DOMAIN ws : ~ws[w].minimized}

Stacked(ws, top) ==
    /\ ws \in [DOMAIN ws -> PageWindow]
    /\ \A w \in DOMAIN ws : ws[w].zIndex <= top
    /\ \A v, w \in DOMAIN ws : ws[v].zIndex = ws[w].zIndex => v = w

(* A window above every other that can be seen is the top one; there is one
   as soon as a window can be seen.                                         *)
LEMMA TopIs ==
    ASSUME NEW ws, NEW top \in Nat, Stacked(ws, top), NEW t \in Seen(ws),
           \A v \in Seen(ws) : ws[v].zIndex <= ws[t].zIndex
    PROVE  getTopWindow(ws) = t
  <1>1. \A v \in Seen(ws) : v \in DOMAIN ws /\ ws[v].zIndex \in Nat
    BY DEF Seen, Stacked, PageWindow
  <1>2. ASSUME NEW u \in Seen(ws), \A v \in Seen(ws) : ws[v].zIndex <= ws[u].zIndex
        PROVE  u = t
    <2>1. ws[u].zIndex = ws[t].zIndex BY <1>1, <1>2
    <2> QED BY <1>1, <2>1 DEF Stacked
  <1>3. getTopWindow(ws) = CHOOSE u \in Seen(ws) : \A v \in Seen(ws) : ws[v].zIndex <= ws[u].zIndex
    BY DEF getTopWindow, Seen
  <1> QED BY <1>2, <1>3

(* Among windows that can be seen one is above the others. *)
LEMMA TopExists ==
    ASSUME NEW ws, NEW top \in Nat, Stacked(ws, top), Seen(ws) # {}
    PROVE  \E t \in Seen(ws) : \A v \in Seen(ws) : ws[v].zIndex <= ws[t].zIndex
  <1> DEFINE Depth == {top - ws[v].zIndex : v \in Seen(ws)}
  <1>1. \A v \in Seen(ws) : ws[v].zIndex \in Nat /\ ws[v].zIndex <= top
    BY DEF Seen, Stacked, PageWindow
  <1>2. Depth \subseteq Nat /\ Depth # {} BY <1>1
  <1>3. PICK n \in Depth : \A m \in Depth : n <= m
    <2> HIDE DEF Depth
    <2> QED BY <1>2, LeastNat
  <1>4. PICK t \in Seen(ws) : n = top - ws[t].zIndex BY <1>3
  <1>5. ASSUME NEW v \in Seen(ws) PROVE ws[v].zIndex <= ws[t].zIndex
    <2>1. n <= top - ws[v].zIndex BY <1>3
    <2> QED BY <1>1, <1>4, <2>1
  <1> QED BY <1>5

(* Tables that agree on what can be seen and how high it is agree on the top. *)
LEMMA TopSame ==
    ASSUME NEW ws, NEW vs, NEW top \in Nat, NEW up \in Nat, Stacked(ws, top), Stacked(vs, up),
           Seen(ws) = Seen(vs), \A v \in Seen(ws) : ws[v].zIndex = vs[v].zIndex
    PROVE  getTopWindow(ws) = getTopWindow(vs)
  <1>1. CASE Seen(ws) = {} BY <1>1 DEF getTopWindow, Seen
  <1>2. CASE Seen(ws) # {}
    <2>1. PICK t \in Seen(ws) : \A v \in Seen(ws) : ws[v].zIndex <= ws[t].zIndex
      BY <1>2, TopExists
    <2>2. getTopWindow(ws) = t BY <2>1, TopIs
    <2>3. t \in Seen(vs) /\ \A v \in Seen(vs) : vs[v].zIndex <= vs[t].zIndex BY <2>1
    <2>4. getTopWindow(vs) = t BY <2>3, TopIs
    <2> QED BY <2>2, <2>4
  <1> QED BY <1>1, <1>2

(* The focus is where it can be seen, and what is not drawn again is up to date. *)
Current(ws, last) ==
    \A w \in DOMAIN ws : ws[w].dirty = FALSE =>
        w \in DOMAIN last /\ last[w] = <<ws[w].place, ws[w].zIndex>>

(* The windows' order, the focus, and what was drawn. *)
PageInv ==
    /\ _topZ \in Nat /\ Stacked(windows, _topZ)
    /\ focusedId = getTopWindow(windows)
    /\ Current(windows, drawn)

(* What changes neither heights nor what can be seen, and has drawn again
   whatever it changes.                                                     *)
LEMMA Redrawn ==
    ASSUME PageInv, NEW ws, windows' = ws, ws \in [DOMAIN windows -> PageWindow],
           \A v \in DOMAIN windows : /\ ws[v].zIndex = windows[v].zIndex
                                     /\ ws[v].minimized = windows[v].minimized
                                     /\ ws[v] = windows[v] \/ ws[v].dirty = TRUE,
           UNCHANGED <<focusedId, _topZ, drawn>>
    PROVE  PageInv'
  <1>1. DOMAIN ws = DOMAIN windows OBVIOUS
  <1>2. Stacked(ws, _topZ) BY <1>1 DEF PageInv, Stacked
  <1>3. Seen(ws) = Seen(windows) BY <1>1 DEF Seen
  <1>4. \A v \in Seen(ws) : ws[v].zIndex = windows[v].zIndex BY <1>1 DEF Seen
  <1>5. getTopWindow(ws) = getTopWindow(windows) BY <1>2, <1>3, <1>4, TopSame DEF PageInv
  <1>6. Current(ws, drawn)
    <2>1. ASSUME NEW v \in DOMAIN ws, ws[v].dirty = FALSE
          PROVE  v \in DOMAIN drawn /\ drawn[v] = <<ws[v].place, ws[v].zIndex>>
      <3>1. ws[v] = windows[v] BY <1>1, <2>1
      <3> QED BY <1>1, <2>1, <3>1 DEF PageInv, Current
    <2> QED BY <2>1 DEF Current
  <1> QED BY <1>2, <1>5, <1>6 DEF PageInv

(* A window is given a height above every other: it is on top. *)
LEMMA Raised ==
    ASSUME NEW D, NEW ws \in [D -> PageWindow], NEW w \in D, NEW top \in Nat,
           \A v \in D \ {w} : ws[v].zIndex <= top,
           \A u, v \in D \ {w} : ws[u].zIndex = ws[v].zIndex => u = v,
           ws[w].zIndex = top + 1, w \in Seen(ws)
    PROVE  Stacked(ws, top + 1) /\ getTopWindow(ws) = w
  <1>1. DOMAIN ws = D OBVIOUS
  <1>2. \A v \in D : ws[v].zIndex \in Nat BY DEF PageWindow
  <1>3. Stacked(ws, top + 1) BY <1>1, <1>2 DEF Stacked
  <1>4. \A v \in Seen(ws) : ws[v].zIndex <= ws[w].zIndex
    BY <1>1, <1>2 DEF Seen
  <1>5. top + 1 \in Nat OBVIOUS
  <1> QED BY <1>3, <1>4, <1>5, TopIs

(* focus keeps the invariant, ... *)
LEMMA FocusKeepsPage == ASSUME PageInv, NEW w, focus(w) PROVE PageInv'
  <1> DEFINE D == DOMAIN windows
             r == Win(windows[w].place, windows[w].snap, _topZ + 1, FALSE, windows[w].maximized, TRUE)
             ws == Put(D, windows, w, r)
  <1>1. /\ windows \in [D -> PageWindow] /\ w \in D /\ _topZ \in Nat
        /\ \A v \in D : windows[v].zIndex <= _topZ
        /\ \A u, v \in D : windows[u].zIndex = windows[v].zIndex => u = v
    BY DEF PageInv, Stacked, focus
  <1>2. windows' = ws /\ _topZ' = _topZ + 1 /\ focusedId' = w /\ drawn' = drawn
    BY <1>1, FocusedIs DEF focus
  <1>3. windows[w] \in PageWindow BY <1>1
  <1>4. r \in PageWindow
    <2>1. /\ windows[w].place \in Zone \cup {"free"} /\ windows[w].snap \in Zone \cup {NoOne}
          /\ windows[w].maximized \in BOOLEAN /\ _topZ + 1 \in Nat
      BY <1>1, <1>3 DEF PageWindow
    <2> QED BY <2>1, WinType
  <1>5. r.zIndex = _topZ + 1 /\ r.minimized = FALSE /\ r.dirty = TRUE BY DEF Win
  <1> HIDE DEF r
  <1>6. /\ ws \in [D -> PageWindow] /\ ws[w] = r /\ DOMAIN ws = D
        /\ \A v \in D \ {w} : ws[v] = windows[v]
    BY <1>1, <1>4 DEF Put
  <1> HIDE DEF ws
  <1>7. Stacked(ws, _topZ + 1) /\ getTopWindow(ws) = w
    <2>1. /\ \A v \in D \ {w} : ws[v].zIndex <= _topZ
          /\ \A u, v \in D \ {w} : ws[u].zIndex = ws[v].zIndex => u = v
      BY <1>1, <1>6
    <2>2. ws[w].zIndex = _topZ + 1 /\ w \in Seen(ws) BY <1>1, <1>5, <1>6 DEF Seen
    <2> HIDE DEF D
    <2> QED BY <1>1, <1>6, <2>1, <2>2, Raised
  <1>8. Current(ws, drawn) BY <1>5, <1>6 DEF PageInv, Current
  <1> QED BY <1>1, <1>2, <1>6, <1>7, <1>8 DEF PageInv

(* ... addWindow does, ... *)
LEMMA AddKeepsPage == ASSUME PageInv, NEW w, addWindow(w) PROVE PageInv'
  <1> DEFINE E == DOMAIN windows
             D == E \cup {w}
             new == [place |-> "free", snap |-> NoOne, zIndex |-> 0,
                     minimized |-> FALSE, maximized |-> FALSE, dirty |-> TRUE]
             with == With(windows, w, new)
             r == Win(with[w].place, with[w].snap, _topZ + 1, FALSE, with[w].maximized, TRUE)
             ws == Put(D, with, w, r)
  <1>1. /\ windows \in [E -> PageWindow] /\ w \notin E /\ _topZ \in Nat
        /\ \A v \in E : windows[v].zIndex <= _topZ
        /\ \A u, v \in E : windows[u].zIndex = windows[v].zIndex => u = v
    BY DEF PageInv, Stacked, addWindow
  <1>2. windows' = Focused(with, w) /\ _topZ' = _topZ + 1 /\ focusedId' = w /\ drawn' = drawn
    BY DEF addWindow
  <1>3. new \in PageWindow BY DEF PageWindow
  <1> HIDE DEF new
  <1>4. with \in [D -> PageWindow] /\ w \in D /\ \A v \in D \ {w} : with[v] = windows[v]
    BY <1>1, <1>3 DEF With
  <1>5. with[w] \in PageWindow BY <1>4
  <1> HIDE DEF with
  <1>6. Focused(with, w) = ws
    <2> HIDE DEF D
    <2> QED BY <1>4, FocusedIs
  <1>7. r \in PageWindow
    <2>1. /\ with[w].place \in Zone \cup {"free"} /\ with[w].snap \in Zone \cup {NoOne}
          /\ with[w].maximized \in BOOLEAN /\ _topZ + 1 \in Nat
      BY <1>1, <1>5 DEF PageWindow
    <2> QED BY <2>1, WinType
  <1>8. r.zIndex = _topZ + 1 /\ r.minimized = FALSE /\ r.dirty = TRUE BY DEF Win
  <1> HIDE DEF r
  <1>9. /\ ws \in [D -> PageWindow] /\ ws[w] = r /\ DOMAIN ws = D
        /\ \A v \in D \ {w} : ws[v] = windows[v]
    BY <1>4, <1>7 DEF Put
  <1> HIDE DEF ws
  <1>10. D \ {w} = E BY <1>1
  <1>11. Stacked(ws, _topZ + 1) /\ getTopWindow(ws) = w
    <2>1. /\ \A v \in D \ {w} : ws[v].zIndex <= _topZ
          /\ \A u, v \in D \ {w} : ws[u].zIndex = ws[v].zIndex => u = v
      BY <1>1, <1>9, <1>10
    <2>2. ws[w].zIndex = _topZ + 1 /\ w \in Seen(ws) BY <1>4, <1>8, <1>9 DEF Seen
    <2> HIDE DEF D
    <2> QED BY <1>1, <1>4, <1>9, <2>1, <2>2, Raised
  <1>12. Current(ws, drawn)
    <2>1. ASSUME NEW v \in D, ws[v].dirty = FALSE PROVE v \in E /\ ws[v] = windows[v]
      BY <1>8, <1>9, <2>1
    <2> QED BY <1>9, <2>1 DEF PageInv, Current
  <1> QED BY <1>1, <1>2, <1>6, <1>9, <1>11, <1>12 DEF PageInv

(* A window that is gone, or cannot be seen, leaves the others as they stood. *)
LEMMA LeftOver ==
    ASSUME NEW ws, NEW top \in Nat, Stacked(ws, top), NEW w
    PROVE  /\ Stacked(Without(ws, w), top)
           /\ Seen(Without(ws, w)) = Seen(ws) \ {w}
           /\ \A v \in DOMAIN ws \ {w} : Without(ws, w)[v] = ws[v]
           /\ DOMAIN Without(ws, w) = DOMAIN ws \ {w}
  <1>1. /\ DOMAIN Without(ws, w) = DOMAIN ws \ {w}
        /\ \A v \in DOMAIN ws \ {w} : Without(ws, w)[v] = ws[v]
        /\ Without(ws, w) \in [DOMAIN ws \ {w} -> PageWindow]
    BY DEF Without, Stacked
  <1>2. Stacked(Without(ws, w), top) BY <1>1 DEF Stacked
  <1>3. Seen(Without(ws, w)) = Seen(ws) \ {w} BY <1>1 DEF Seen
  <1> QED BY <1>1, <1>2, <1>3

(* ... removeWindow, ... *)
LEMMA RemoveKeepsPage == ASSUME PageInv, NEW w, removeWindow(w) PROVE PageInv'
  <1> DEFINE rest == Without(windows, w)
  <1>1. /\ windows' = rest /\ _topZ' = _topZ /\ drawn' = Without(drawn, w)
        /\ focusedId' = IF focusedId = w THEN getTopWindow(rest) ELSE focusedId
    BY DEF removeWindow
  <1>2. /\ Stacked(windows, _topZ) /\ _topZ \in Nat /\ focusedId = getTopWindow(windows)
        /\ Current(windows, drawn)
    BY DEF PageInv
  <1>3. /\ Stacked(rest, _topZ) /\ Seen(rest) = Seen(windows) \ {w}
        /\ \A v \in DOMAIN windows \ {w} : rest[v] = windows[v]
        /\ DOMAIN rest = DOMAIN windows \ {w}
    BY <1>2, LeftOver
  <1> HIDE DEF rest
  <1>4. focusedId' = getTopWindow(rest)
    <2>1. CASE focusedId = w BY <1>1, <2>1
    <2>2. CASE focusedId # w /\ Seen(windows) = {}
      <3>1. getTopWindow(rest) = NoOne /\ getTopWindow(windows) = NoOne
        BY <1>3, <2>2 DEF getTopWindow, Seen
      <3> QED BY <1>1, <1>2, <2>2, <3>1
    <2>3. CASE focusedId # w /\ Seen(windows) # {}
      <3>1. PICK t \in Seen(windows) : \A v \in Seen(windows) : windows[v].zIndex <= windows[t].zIndex
        BY <1>2, <2>3, TopExists
      <3>2. focusedId = t BY <1>2, <3>1, TopIs
      <3>3. t \in Seen(rest) /\ \A v \in Seen(rest) : rest[v].zIndex <= rest[t].zIndex
        BY <1>3, <2>3, <3>1, <3>2 DEF Seen
      <3>4. getTopWindow(rest) = t BY <1>2, <1>3, <3>3, TopIs
      <3> QED BY <1>1, <2>3, <3>2, <3>4
    <2> QED BY <2>1, <2>2, <2>3
  <1>5. Current(rest, Without(drawn, w))
    <2>1. ASSUME NEW v \in DOMAIN rest, rest[v].dirty = FALSE
          PROVE  v \in DOMAIN drawn \ {w} /\ drawn[v] = <<rest[v].place, rest[v].zIndex>>
      <3>1. v \in DOMAIN windows \ {w} /\ rest[v] = windows[v] BY <1>3
      <3> QED BY <1>2, <2>1, <3>1 DEF Current
    <2> QED BY <2>1 DEF Without, Current
  <1> QED BY <1>1, <1>2, <1>3, <1>4, <1>5 DEF PageInv

(* ... minimize, ... *)
LEMMA MinimizeKeepsPage == ASSUME PageInv, NEW w, minimize(w) PROVE PageInv'
  <1> DEFINE D == DOMAIN windows
             rest == Without(windows, w)
             r == Win(windows[w].place, windows[w].snap, windows[w].zIndex, TRUE, windows[w].maximized, TRUE)
             ws == Put(D, windows, w, r)
  <1>1. /\ Stacked(windows, _topZ) /\ windows \in [D -> PageWindow] /\ w \in D /\ _topZ \in Nat
        /\ Current(windows, drawn)
    BY DEF PageInv, Stacked, minimize
  <1>2. windows' = ws /\ _topZ' = _topZ /\ focusedId' = getTopWindow(rest) /\ drawn' = drawn
    BY <1>1, MinimizedIs DEF minimize
  <1>3. windows[w] \in PageWindow BY <1>1
  <1>4. r \in PageWindow
    <2>1. /\ windows[w].place \in Zone \cup {"free"} /\ windows[w].snap \in Zone \cup {NoOne}
          /\ windows[w].maximized \in BOOLEAN /\ windows[w].zIndex \in Nat
      BY <1>3 DEF PageWindow
    <2> QED BY <2>1, WinType
  <1>5. r.zIndex = windows[w].zIndex /\ r.minimized = TRUE /\ r.dirty = TRUE BY DEF Win
  <1> HIDE DEF r
  <1>6. /\ ws \in [D -> PageWindow] /\ ws[w] = r /\ DOMAIN ws = D
        /\ \A v \in D \ {w} : ws[v] = windows[v]
    BY <1>1, <1>4 DEF Put
  <1> HIDE DEF ws
  <1>7. /\ Stacked(rest, _topZ) /\ Seen(rest) = Seen(windows) \ {w}
        /\ \A v \in D \ {w} : rest[v] = windows[v]
    BY <1>1, LeftOver
  <1> HIDE DEF rest
  <1>8. Stacked(ws, _topZ)
    <2>1. \A v \in D : ws[v].zIndex = windows[v].zIndex BY <1>5, <1>6
    <2> QED BY <1>1, <1>6, <2>1 DEF Stacked
  <1>9. Seen(ws) = Seen(rest)
    <2>1. Seen(ws) = Seen(windows) \ {w} BY <1>5, <1>6 DEF Seen
    <2> QED BY <1>7, <2>1
  <1>10. \A v \in Seen(ws) : ws[v].zIndex = rest[v].zIndex
    <2>1. Seen(ws) \subseteq D \ {w} BY <1>5, <1>6 DEF Seen
    <2> QED BY <1>6, <1>7, <2>1
  <1>11. getTopWindow(ws) = getTopWindow(rest) BY <1>1, <1>7, <1>8, <1>9, <1>10, TopSame
  <1>12. Current(ws, drawn)
    <2>1. ASSUME NEW v \in D, ws[v].dirty = FALSE PROVE v # w /\ ws[v] = windows[v]
      BY <1>5, <1>6, <2>1
    <2> QED BY <1>1, <1>6, <2>1 DEF Current
  <1> QED BY <1>1, <1>2, <1>6, <1>8, <1>11, <1>12 DEF PageInv

(* A window that moves, snaps or changes its size is drawn again. *)
LEMMA OneRedrawn ==
    ASSUME PageInv, NEW w \in DOMAIN windows,
           NEW p \in Zone \cup {"free"}, NEW s \in Zone \cup {NoOne}, NEW x \in BOOLEAN,
           windows' = Put(DOMAIN windows, windows, w,
                          Win(p, s, windows[w].zIndex, windows[w].minimized, x, TRUE)),
           UNCHANGED <<focusedId, _topZ, drawn>>
    PROVE  PageInv'
  <1> DEFINE r == Win(p, s, windows[w].zIndex, windows[w].minimized, x, TRUE)
             ws == Put(DOMAIN windows, windows, w, r)
  <1>1. windows \in [DOMAIN windows -> PageWindow] BY DEF PageInv, Stacked
  <1>2. windows[w] \in PageWindow BY <1>1
  <1>3. r \in PageWindow
    <2>1. windows[w].zIndex \in Nat /\ windows[w].minimized \in BOOLEAN BY <1>2 DEF PageWindow
    <2> QED BY <2>1, WinType
  <1>4. r.zIndex = windows[w].zIndex /\ r.minimized = windows[w].minimized /\ r.dirty = TRUE
    BY DEF Win
  <1> HIDE DEF r
  <1>5. /\ ws \in [DOMAIN windows -> PageWindow] /\ ws[w] = r
        /\ \A v \in DOMAIN windows \ {w} : ws[v] = windows[v]
    BY <1>1, <1>3 DEF Put
  <1>6. windows' = ws BY DEF r
  <1> HIDE DEF ws
  <1>7. \A v \in DOMAIN windows : /\ ws[v].zIndex = windows[v].zIndex
                                  /\ ws[v].minimized = windows[v].minimized
                                  /\ ws[v] = windows[v] \/ ws[v].dirty = TRUE
    BY <1>4, <1>5
  <1> QED BY <1>5, <1>6, <1>7, Redrawn

(* ... toggleMaximize, move, resize and applySnap, ... *)
LEMMA PlacesKeepPage ==
    ASSUME PageInv, NEW w,
           toggleMaximize(w) \/ move(w) \/ resize(w) \/ (\E zone \in Zone : applySnap(w, zone))
    PROVE  PageInv'
  <1>1. /\ windows \in [DOMAIN windows -> PageWindow] /\ w \in DOMAIN windows
        /\ UNCHANGED <<focusedId, _topZ, drawn>>
    BY DEF PageInv, Stacked, toggleMaximize, move, resize, applySnap
  <1>2. windows[w] \in PageWindow BY <1>1
  <1>3. /\ windows[w].place \in Zone \cup {"free"} /\ windows[w].snap \in Zone \cup {NoOne}
        /\ windows[w].maximized \in BOOLEAN /\ (~windows[w].maximized) \in BOOLEAN
    BY <1>2 DEF PageWindow
  <1>4. CASE toggleMaximize(w)
    <2> DEFINE t == IF windows[w].maximized THEN windows[w].snap ELSE "maximize"
               q == IF windows[w].maximized THEN windows[w].place ELSE "maximize"
    <2>1. windows' = Maximized(windows, w, q, t)
      BY <1>4 DEF toggleMaximize, Maximized
    <2>2. t \in Zone \cup {NoOne} /\ q \in Zone \cup {"free"} BY <1>3, PageWindowsAssumption
    <2> HIDE DEF t, q
    <2>3. windows' = Put(DOMAIN windows, windows, w,
              Win(q, t, windows[w].zIndex, windows[w].minimized, ~windows[w].maximized, TRUE))
      BY <1>1, <2>1, MaximizedIs, ZenonT(30)
    <2> QED BY <1>1, <1>3, <2>2, <2>3, OneRedrawn
  <1>5. CASE move(w)
    <2>1. windows' = [windows EXCEPT ![w].place = "free", ![w].dirty = TRUE] BY <1>5 DEF move
    <2>2. windows' = Put(DOMAIN windows, windows, w,
              Win("free", windows[w].snap, windows[w].zIndex, windows[w].minimized,
                  windows[w].maximized, TRUE))
      BY <1>1, <2>1, MovedIs
    <2>3. "free" \in Zone \cup {"free"} OBVIOUS
    <2> QED BY <1>1, <1>3, <2>2, <2>3, OneRedrawn
  <1>6. CASE resize(w)
    <2>1. windows' = PlacedAt(windows, w, "free", NoOne) BY <1>6 DEF resize, PlacedAt
    <2>2. windows' = Put(DOMAIN windows, windows, w,
              Win("free", NoOne, windows[w].zIndex, windows[w].minimized, windows[w].maximized, TRUE))
      BY <1>1, <2>1, PlacedIs
    <2>3. "free" \in Zone \cup {"free"} /\ NoOne \in Zone \cup {NoOne} OBVIOUS
    <2> QED BY <1>1, <1>3, <2>2, <2>3, OneRedrawn
  <1>7. ASSUME NEW zone \in Zone, applySnap(w, zone) PROVE PageInv'
    <2>1. windows' = PlacedAt(windows, w, zone, zone) BY <1>7 DEF applySnap, PlacedAt
    <2>2. windows' = Put(DOMAIN windows, windows, w,
              Win(zone, zone, windows[w].zIndex, windows[w].minimized, windows[w].maximized, TRUE))
      BY <1>1, <2>1, PlacedIs
    <2>3. zone \in Zone \cup {"free"} /\ zone \in Zone \cup {NoOne} OBVIOUS
    <2> QED BY <1>1, <1>3, <2>2, <2>3, OneRedrawn
  <1> QED BY <1>4, <1>5, <1>6, <1>7

(* Setting dirty changes nothing else of a window. *)
LEMMA DirtyIs ==
    ASSUME NEW r \in PageWindow, NEW d \in BOOLEAN
    PROVE  /\ [r EXCEPT !.dirty = d] \in PageWindow
           /\ [r EXCEPT !.dirty = d].dirty = d
           /\ [r EXCEPT !.dirty = d].zIndex = r.zIndex
           /\ [r EXCEPT !.dirty = d].minimized = r.minimized
           /\ [r EXCEPT !.dirty = d].place = r.place
  BY DEF PageWindow

(* ... resize_screen, ... *)
LEMMA ScreenKeepsPage == ASSUME PageInv, resize_screen PROVE PageInv'
  <1> DEFINE ws == [w \in DOMAIN windows |-> [windows[w] EXCEPT !.dirty = TRUE]]
  <1>1. windows \in [DOMAIN windows -> PageWindow] BY DEF PageInv, Stacked
  <1>2. windows' = ws /\ UNCHANGED <<focusedId, _topZ, drawn>> BY DEF resize_screen
  <1>3. ASSUME NEW v \in DOMAIN windows
        PROVE  /\ ws[v] \in PageWindow /\ ws[v].dirty = TRUE
               /\ ws[v].zIndex = windows[v].zIndex /\ ws[v].minimized = windows[v].minimized
    <2>1. windows[v] \in PageWindow /\ TRUE \in BOOLEAN BY <1>1
    <2>2. ws[v] = [windows[v] EXCEPT !.dirty = TRUE] OBVIOUS
    <2> HIDE DEF ws
    <2> QED BY <2>1, <2>2, DirtyIs
  <1>4. ws \in [DOMAIN windows -> PageWindow] BY <1>3
  <1> HIDE DEF ws
  <1> QED BY <1>2, <1>3, <1>4, Redrawn

(* ... and flushDirty. *)
LEMMA FlushKeepsPage == ASSUME PageInv, flushDirty PROVE PageInv'
  <1> DEFINE D == DOMAIN windows
             flushed == {w \in DOMAIN windows : windows[w].dirty /\ ~windows[w].minimized}
             clean(w) == windows[w].dirty /\ w \notin flushed
             ws == [w \in D |-> [windows[w] EXCEPT !.dirty = clean(w)]]
             last == [w \in DOMAIN drawn \cup flushed |->
                        IF w \in flushed THEN <<windows[w].place, windows[w].zIndex>> ELSE drawn[w]]
  <1>1. /\ windows \in [D -> PageWindow] /\ _topZ \in Nat /\ Stacked(windows, _topZ)
        /\ focusedId = getTopWindow(windows) /\ Current(windows, drawn)
    BY DEF PageInv, Stacked
  <1>2. /\ drawn' = last /\ focusedId' = focusedId /\ _topZ' = _topZ
        /\ windows' = [w \in D |-> [windows[w] EXCEPT !.dirty = @ /\ w \notin flushed]]
    BY DEF flushDirty
  <1>3. windows' = ws BY <1>2
  <1>4. \A v \in D : windows[v] \in PageWindow /\ windows[v].dirty \in BOOLEAN
    BY <1>1 DEF PageWindow
  <1>5. \A v \in D : clean(v) \in BOOLEAN BY <1>4
  <1>6. ASSUME NEW v \in D, clean(v) = FALSE PROVE windows[v].dirty = FALSE \/ v \in flushed
    BY <1>4, <1>6
  <1>7. \A v \in DOMAIN drawn \cup flushed :
           last[v] = IF v \in flushed THEN <<windows[v].place, windows[v].zIndex>> ELSE drawn[v]
    OBVIOUS
  <1>8. DOMAIN last = DOMAIN drawn \cup flushed OBVIOUS
  <1>9. \A v \in D : ws[v] = [windows[v] EXCEPT !.dirty = clean(v)] OBVIOUS
  <1>10. DOMAIN ws = D /\ ws = [v \in D |-> ws[v]] OBVIOUS
  <1> HIDE DEF clean, flushed, ws, last
  <1>11. ASSUME NEW v \in D
         PROVE  /\ ws[v] \in PageWindow /\ ws[v].dirty = clean(v)
                /\ ws[v].zIndex = windows[v].zIndex /\ ws[v].minimized = windows[v].minimized
                /\ ws[v].place = windows[v].place
    <2> DEFINE d == clean(v)  u == windows[v]
    <2>1. u \in PageWindow /\ d \in BOOLEAN /\ ws[v] = [u EXCEPT !.dirty = d]
      BY <1>4, <1>5, <1>9
    <2> HIDE DEF d, u
    <2>2. /\ ws[v] \in PageWindow /\ ws[v].dirty = d /\ ws[v].zIndex = u.zIndex
          /\ ws[v].minimized = u.minimized /\ ws[v].place = u.place
      BY <2>1, DirtyIs
    <2> QED BY <2>2 DEF d, u
  <1>12. ws \in [D -> PageWindow] BY <1>10, <1>11
  <1>13. Stacked(ws, _topZ) BY <1>1, <1>10, <1>11, <1>12 DEF Stacked
  <1>14. Seen(ws) = Seen(windows) BY <1>10, <1>11 DEF Seen
  <1>15. \A v \in Seen(ws) : ws[v].zIndex = windows[v].zIndex BY <1>10, <1>11 DEF Seen
  <1>16. getTopWindow(ws) = getTopWindow(windows) BY <1>1, <1>13, <1>14, <1>15, TopSame
  <1>17. Current(ws, last)
    <2>1. ASSUME NEW v \in D, ws[v].dirty = FALSE
          PROVE  v \in DOMAIN last /\ last[v] = <<ws[v].place, ws[v].zIndex>>
      <3>1. windows[v].dirty = FALSE \/ v \in flushed
        <4>1. clean(v) = FALSE BY <1>11, <2>1
        <4> QED BY <1>6, <4>1
      <3>2. CASE v \in flushed BY <1>7, <1>8, <1>11, <3>2
      <3>3. CASE windows[v].dirty = FALSE /\ v \notin flushed
        <4>1. v \in DOMAIN drawn /\ drawn[v] = <<windows[v].place, windows[v].zIndex>>
          BY <1>1, <3>3 DEF Current
        <4> QED BY <1>7, <1>8, <1>11, <3>3, <4>1
      <3> QED BY <3>1, <3>2, <3>3
    <2> QED BY <1>10, <2>1 DEF Current
  <1> QED BY <1>1, <1>2, <1>3, <1>13, <1>16, <1>17 DEF PageInv

(* After any calls the window with the focus is the topmost one that can be
   seen, and what the renderer is not given again looks as it was drawn.    *)
THEOREM StackStaysShown == PageSpec => []StackIsShown
  <1>1. PageInit => PageInv
    <2> SUFFICES ASSUME PageInit PROVE PageInv OBVIOUS
    <2>1. windows = << >> /\ focusedId = NoOne /\ _topZ = 0 BY DEF PageInit
    <2>2. DOMAIN windows = {} BY <2>1
    <2>3. Stacked(windows, _topZ) /\ Current(windows, drawn)
      <3>1. windows \in [{} -> PageWindow] BY <2>1
      <3> QED BY <2>2, <3>1 DEF Stacked, Current
    <2>4. getTopWindow(windows) = NoOne BY <2>2 DEF getTopWindow
    <2> QED BY <2>1, <2>3, <2>4 DEF PageInv
  <1>2. PageInv /\ [PageNext]_pageVars => PageInv'
    <2> SUFFICES ASSUME PageInv, [PageNext]_pageVars PROVE PageInv' OBVIOUS
    <2>1. CASE UNCHANGED pageVars BY <2>1 DEF pageVars, PageInv
    <2> QED BY <2>1, ScreenKeepsPage, FlushKeepsPage, FocusKeepsPage, AddKeepsPage,
               RemoveKeepsPage, MinimizeKeepsPage, PlacesKeepPage DEF PageNext
  <1>3. ASSUME PageInv PROVE StackIsShown
    <2>1. \A w \in DOMAIN windows : windows[w].dirty \in BOOLEAN
      <3>1. \A w \in DOMAIN windows : windows[w] \in PageWindow BY <1>3 DEF PageInv, Stacked
      <3> QED BY <3>1 DEF PageWindow
    <2> QED BY <1>3, <2>1 DEF PageInv, StackIsShown, Current
  <1> QED BY <1>1, <1>2, <1>3, PTL DEF PageSpec

(* The compositor's windows, and what is drawn and pressed, together: what
   the runs check as one property. *)
THEOREM DesktopStays == DesktopSpec /\ PointingSpec => []DesktopHolds
  <1>1. KeysOnTop /\ DragIsHeld /\ WithinReach /\ GripHolds /\ PressesLand <=> DesktopHolds
    BY DEF DesktopHolds
  <1> QED BY <1>1, WindowsAgree, PointingStays, PTL

=============================================================================
