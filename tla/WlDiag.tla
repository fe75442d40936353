------------------------------- MODULE WlDiag -------------------------------
(***************************************************************************)
(* wl-diag: the tracer that detours the accessors of Broadcom's wl module  *)
(* while wl runs.  Loading plans the hooks, takes a reference on wl and    *)
(* writes the detours word by word into code that others execute; the      *)
(* detour leads through a stub that records the call and may divert the    *)
(* return; unloading writes the words back.                                *)
(*                                                                         *)
(* A word of wl's text is "old" or "new".  What a processor fetches is     *)
(* what was written last: the flush of the instruction cache that makes it *)
(* so is part of the write.  A caller that mixed old words with new ones,  *)
(* a trap nobody takes, a jump into memory that was freed or a write to it *)
(* is kept in faults, and ends the behaviour.                              *)
(***************************************************************************)
EXTENDS TraceBuffer, FiniteSets, FiniteSetsExt, SequencesExt

CONSTANTS
  Builds,     (* kernels, their options and wl binaries: [version, arm,      *)
              (* flush, preempt, syms, klookup, export, pool, hooks]; pool is *)
              (* RET_POOL                                                     *)
  Tasks,
  MaxSites,   (* MAX_SITES                                                    *)
  Depth,      (* bound: hooked calls of one task inside each other            *)
  MaxCalls    (* bound: calls made                                            *)

Pairs == [hi : Nat \ {0}, lo : Nat \ {0}]
HookRecords == [exists : BOOLEAN, listed : BOOLEAN, branch : 0..4, shortj : BOOLEAN,
                near : BOOLEAN, retcap : BOOLEAN, nargx : BOOLEAN, filtered : BOOLEAN,
                sites : Seq(Pairs)]

ASSUME TasksAssumption == IsFiniteSet(Tasks)
ASSUME BoundsAssumption == MaxSites \in Nat /\ Depth \in Nat /\ MaxCalls \in Nat
ASSUME BuildsAssumption ==
  Builds \subseteq [version : {"3.4", "2.6.30"}, arm : BOOLEAN, flush : BOOLEAN,
                    preempt : BOOLEAN, syms : BOOLEAN, klookup : BOOLEAN, export : BOOLEAN,
                    pool : Nat, hooks : Seq(HookRecords)]

VARIABLES
  build,
  loader,     (* the tracer: "absent", "planned", "arming", "armed", "dry",   *)
              (* "refused", "disarming", "restored", "synced", "unloaded"     *)
  work,       (* the writes the loader has still to do                        *)
  text,       (* wl's words: <<hook, word>> |-> "old" or "new"                *)
  armed,      (* hooks[i].armed                                               *)
  symbols,    (* ksbuf is allocated                                           *)
  target,     (* wl: "live", "going", "notified", "gone"                      *)
  ref,        (* target_mod and mod_ref_held: [mod, held]                     *)
  notifiers,  (* which of "die" and "module" are registered                   *)
  diverting,  (* ret_trampoline is set                                        *)
  pool,       (* ret_pool: [task, order, home]                                *)
  order,      (* ret_order                                                    *)
  stack,      (* the hooked calls each task is in, innermost last             *)
  calls,      (* calls made so far                                            *)
  late,       (* history: the reference was asked for when wl was leaving     *)
  faults

traceVars == <<build, loader, work, text, armed, symbols, target, ref, notifiers,
               diverting, pool, order, stack, calls, late, faults>>
vars == <<bufferVars, traceVars>>

Hook(i) == build.hooks[i]
Hooks == DOMAIN build.hooks

(***************************************************************************)
(* Symbols.  On 3.4 kallsyms_lookup_name() is linked to; on 2.6.30 a name  *)
(* comes from syms=, from the function at klookup=, or from the file, and  *)
(* only then from the function's export, where there is one.               *)
(***************************************************************************)
SlurpsSymbols == build.version = "2.6.30" /\ ~build.syms /\ ~build.klookup

Override(h) == build.syms /\ h.listed

ResolveSym(h) ==
  \/ Override(h)
  \/ h.exists /\ (build.klookup \/ SlurpsSymbols \/ build.export)

Found(h) == IF build.version = "3.4" THEN h.exists ELSE ResolveSym(h)

(***************************************************************************)
(* The plan.  h.branch is the first of the four words of the prologue that *)
(* is a branch, 0 if none is.                                              *)
(***************************************************************************)
Window(h) == IF h.shortj THEN 2 ELSE 4
Branchy(h) == h.branch \in 1..Window(h)

(* find_sites: the pairs that load the address, at most MAX_SITES; one that *)
(* shares its addiu is overwritten with the last and the rest looked at,    *)
(* which takes as many looks as there are pairs.                            *)
Sift(s) ==
  LET look(u, i) == IF \E k \in DOMAIN u \ {i} : u[k].lo = u[i].lo
                      THEN [kept |-> Front([u EXCEPT ![i] = Last(u)]), at |-> i]
                      ELSE [kept |-> u, at |-> i + 1]
      after[n \in 0..Len(s)] ==
        IF n = 0 THEN [kept |-> s, at |-> 1] ELSE look(after[n - 1].kept, after[n - 1].at)
  IN  after[Len(s)].kept

FindSites(h) == Sift(SubSeq(h.sites, 1, Min({MaxSites, Len(h.sites)})))

Plan34(h) ==
  CASE ~Found(h) -> "skip"
    [] Found(h) /\ Branchy(h) ->
         IF FindSites(h) # <<>> THEN "sites"
         ELSE IF h.branch # 1 THEN "break" ELSE "skip"
    [] OTHER -> IF ~h.shortj THEN "classic" ELSE IF h.near THEN "short" ELSE "skip"

Plan26(h) ==
  CASE ~Found(h) -> "skip"
    [] Found(h) /\ Branchy(h) -> IF FindSites(h) # <<>> THEN "sites" ELSE "skip"
    [] OTHER -> IF ~h.shortj THEN "classic" ELSE IF h.near THEN "short" ELSE "skip"

Kind(i) == IF build.version = "3.4" THEN Plan34(Hook(i)) ELSE Plan26(Hook(i))

Eligible == {i \in Hooks : Kind(i) # "skip"}

(* Words of the prologue the stub executes in their place (build_stub,      *)
(* build_bp_stub).                                                          *)
Replayed(i) ==
  CASE Kind(i) = "classic" -> 4 [] Kind(i) = "short" -> 2
    [] Kind(i) = "break" -> 1 [] OTHER -> 0

(***************************************************************************)
(* The writes of arming and disarming, in their order.                     *)
(***************************************************************************)
Word(i, w, to) == [hook |-> i, word |-> w, to |-> to]
Mark(i, to) == [hook |-> i, word |-> 0, to |-> to]
SiteWords(i) ==
  LET s == FindSites(Hook(i))
  IN  FlattenSeq([k \in DOMAIN s |-> <<s[k].hi, s[k].lo>>])

HeadFirst(i) ==
  IF Kind(i) = "short" THEN <<Word(i, 1, "new")>>
  ELSE <<Word(i, 1, "new"), Word(i, 4, "new"), Word(i, 3, "new"), Word(i, 2, "new")>>

PatchEntry(i) ==
  IF Kind(i) = "short" THEN <<Word(i, 1, "new")>>
  ELSE <<Word(i, 4, "new"), Word(i, 3, "new"), Word(i, 2, "new"), Word(i, 1, "new")>>

OnlyHead(i) == <<Word(i, 1, "old")>>

RestoreEntry(i) ==
  IF Kind(i) = "short" THEN <<Word(i, 1, "old")>>
  ELSE <<Word(i, 2, "old"), Word(i, 3, "old"), Word(i, 4, "old"), Word(i, 1, "old")>>

PatchSites(i) == [k \in DOMAIN SiteWords(i) |-> Word(i, SiteWords(i)[k], "new")]
RestoreSites(i) == [k \in DOMAIN SiteWords(i) |-> Word(i, SiteWords(i)[k], "old")]

(* A hook counts as armed once its words are written.                       *)
ArmHook34(i) ==
  CASE Kind(i) = "sites" -> PatchSites(i)
    [] Kind(i) = "break" -> <<Word(i, 1, "new")>>
    [] OTHER -> PatchEntry(i)

ArmHook26(i) == IF Kind(i) = "sites" THEN PatchSites(i) ELSE PatchEntry(i)

ArmHook(i) ==
  (IF build.version = "3.4" THEN ArmHook34(i) ELSE ArmHook26(i)) \o <<Mark(i, "new")>>

DisarmHook34(i) ==
  CASE Kind(i) = "sites" -> RestoreSites(i)
    [] Kind(i) = "break" -> <<Word(i, 1, "old")>>
    [] OTHER -> RestoreEntry(i)

DisarmHook26(i) == IF Kind(i) = "sites" THEN RestoreSites(i) ELSE RestoreEntry(i)

DisarmHook(i) ==
  (IF build.version = "3.4" THEN DisarmHook34(i) ELSE DisarmHook26(i)) \o <<Mark(i, "old")>>

ArmAll == FlattenSeq([i \in Hooks |-> IF i \in Eligible THEN ArmHook(i) ELSE <<>>])
DisarmAll == FlattenSeq([i \in Hooks |-> IF i \in armed THEN DisarmHook(i) ELSE <<>>])

(***************************************************************************)
(* Loading.                                                                *)
(***************************************************************************)
Calling == UNCHANGED <<pool, order, stack, calls>>
NoFault == faults = {}

(* wd_init up to the reference, on 3.4: without a hook or an entry in /proc *)
(* it fails, without arm=1 or the cache's flush it only shows the plan; the *)
(* notifier of the traps comes before the first of them.                    *)
Gives(result) == loader' = result /\ UNCHANGED <<notifiers, diverting>>

Prepared == diverting' = (\E i \in Eligible : Hook(i).retcap)

Load34 ==
  /\ build.version = "3.4"
  /\ \/ Gives("refused")
     \/ Eligible # {} /\ ~(build.arm /\ build.flush) /\ Gives("dry")
     \/ /\ Eligible # {} /\ build.arm /\ build.flush
        /\ Prepared
        /\ IF \E i \in Eligible : Kind(i) = "break"
             THEN \/ loader' = "planned" /\ notifiers' = {"die"}
                  \/ loader' = "dry" /\ UNCHANGED notifiers
             ELSE loader' = "planned" /\ UNCHANGED notifiers
  /\ symbols' = FALSE

(* And on 2.6.30, where the file of symbols is let go on every way out but  *)
(* two.                                                                     *)
Load26 ==
  /\ build.version = "2.6.30"
  /\ \/ Eligible = {} /\ Gives("refused") /\ symbols' = SlurpsSymbols
     \/ Eligible # {} /\ Gives("refused") /\ symbols' = FALSE
     \/ Eligible # {} /\ ~build.arm /\ Gives("dry") /\ symbols' = FALSE
     \/ Eligible # {} /\ build.arm /\ ~build.flush /\ Gives("dry") /\ symbols' = SlurpsSymbols
     \/ /\ Eligible # {} /\ build.arm /\ build.flush
        /\ Prepared
        /\ loader' = "planned" /\ UNCHANGED notifiers
        /\ symbols' = SlurpsSymbols

Load ==
  /\ loader = "absent" /\ target = "live" /\ NoFault
  /\ Load34 \/ Load26
  /\ Calling
  /\ UNCHANGED <<bufferVars, build, work, text, armed, target, ref, late, faults>>

(* target_ref_get: 3.4 refuses a module that is going, 2.6.30 does not.     *)
RefNeverTaken == ref' = [mod |-> target # "gone", held |-> FALSE]
RefGet ==
  ref' = [mod |-> target # "gone",
          held |-> IF build.version = "3.4" THEN target = "live" ELSE target # "gone"]

Reference ==
  /\ loader = "planned" /\ NoFault
  /\ RefGet
  /\ notifiers' \in {notifiers, notifiers \union {"module"}}
  /\ late' = (target # "live")
  /\ loader' = "arming"
  /\ work' = ArmAll
  /\ Calling
  /\ UNCHANGED <<bufferVars, build, text, armed, symbols, target, diverting, faults>>

(* One write, to wl's text or to hooks[i].armed.                            *)
WriteNext ==
  LET s == Head(work)
  IN  /\ work' = Tail(work)
      /\ IF s.word = 0
           THEN /\ armed' = IF s.to = "new" THEN armed \union {s.hook} ELSE armed \ {s.hook}
                /\ UNCHANGED <<text, faults>>
           ELSE /\ IF target = "gone"
                     THEN faults' = {[what |-> "stray", kind |-> Kind(s.hook), first |-> s.to,
                                      phase |-> loader]} /\ UNCHANGED text
                     ELSE text' = [text EXCEPT ![<<s.hook, s.word>>] = s.to] /\ UNCHANGED faults
                /\ UNCHANGED armed

Arm ==
  /\ loader = "arming" /\ NoFault
  /\ \/ work # <<>> /\ WriteNext /\ UNCHANGED <<loader, symbols>>
     \/ /\ work = <<>> /\ loader' = "armed" /\ symbols' = FALSE
        /\ UNCHANGED <<work, text, armed, faults>>
  /\ Calling
  /\ UNCHANGED <<bufferVars, build, target, ref, notifiers, diverting, late>>

(* wd_exit; an open /proc/wl_diag keeps the module.                         *)
Unload ==
  /\ loader \in {"armed", "dry"} /\ reader = "out" /\ NoFault
  /\ diverting' = FALSE
  /\ notifiers' = notifiers \ {"module"}
  /\ loader' = "disarming"
  /\ work' = DisarmAll
  /\ Calling
  /\ UNCHANGED <<bufferVars, build, text, armed, symbols, target, ref, late, faults>>

Disarm ==
  /\ loader = "disarming" /\ NoFault
  /\ \/ work # <<>> /\ WriteNext /\ UNCHANGED <<loader, notifiers>>
     \/ /\ work = <<>> /\ loader' = "restored" /\ notifiers' = notifiers \ {"die"}
        /\ UNCHANGED <<work, text, armed, faults>>
  /\ Calling
  /\ UNCHANGED <<bufferVars, build, symbols, target, ref, diverting, late>>

(* The places where a task executes the tracer's own memory, or will.       *)
InStub(f) == f.place \in {"hook", "store", "argx", "enter", "exit"}
Inside(f) == InStub(f) \/ (f.place = "body" /\ f.divert)
Frames == UNION {{stack[t][d] : d \in DOMAIN stack[t]} : t \in Tasks}

(* synchronize_sched: every processor has scheduled, which a preempted task *)
(* does not keep it from.                                                   *)
Synchronize ==
  /\ loader = "restored" /\ NoFault
  /\ build.preempt \/ \A f \in Frames : ~Inside(f)
  /\ loader' = "synced"
  /\ ref' = [ref EXCEPT !.held = @ /\ ~ref.mod]
  /\ Calling
  /\ UNCHANGED <<bufferVars, build, work, text, armed, symbols, target, notifiers,
                 diverting, late, faults>>

Free ==
  /\ loader = "synced" /\ reader = "out" /\ NoFault
  /\ loader' = "unloaded"
  /\ faults' = {[what |-> "freed", kind |-> Kind(f.hook), first |-> f.place, phase |-> loader] :
                  f \in {g \in Frames : Inside(g)}}
  /\ Calling
  /\ UNCHANGED <<bufferVars, build, work, text, armed, symbols, target, ref, notifiers,
                 diverting, late>>

(***************************************************************************)
(* The module wl.                                                          *)
(***************************************************************************)
TargetLeaves ==
  /\ target = "live" /\ ~ref.held /\ loader # "absent" /\ NoFault
  /\ target' = "going"
  /\ Calling
  /\ UNCHANGED <<bufferVars, build, loader, work, text, armed, symbols, ref, notifiers,
                 diverting, late, faults>>

(* wd_mod_notify: the hooks are given up.                                   *)
TargetNotifies ==
  /\ target = "going" /\ Frames = {} /\ NoFault
  /\ target' = "notified"
  /\ IF "module" \in notifiers /\ ref.mod
       THEN armed' = {} /\ ref' = [mod |-> FALSE, held |-> FALSE]
       ELSE UNCHANGED <<armed, ref>>
  /\ Calling
  /\ UNCHANGED <<bufferVars, build, loader, work, text, symbols, notifiers, diverting, late, faults>>

TargetGone ==
  /\ target = "notified" /\ NoFault
  /\ target' = "gone"
  /\ Calling
  /\ UNCHANGED <<bufferVars, build, loader, work, text, armed, symbols, ref, notifiers,
                 diverting, late, faults>>

(***************************************************************************)
(* The hooked calls.                                                       *)
(***************************************************************************)
Top(t) == Last(stack[t])
Replace(t, f) == stack' = [stack EXCEPT ![t] = Append(Front(@), f)]
Goes(t, place) == Replace(t, [Top(t) EXCEPT !.place = place])
Pop(t) == stack' = [stack EXCEPT ![t] = Front(@)]
Fails(t, what) ==
  faults' = {[what |-> what, kind |-> Kind(Top(t).hook), first |-> Top(t).first, phase |-> loader]}

At(t, place) == stack[t] # <<>> /\ Top(t).place = place /\ NoFault
LoaderStays == UNCHANGED <<build, loader, work, text, armed, symbols, target, ref,
                           notifiers, diverting, late>>

(* The words a caller fetches that a detour may have changed.               *)
Route(i, via) ==
  CASE Kind(i) = "sites" -> <<Hook(i).sites[via].hi, Hook(i).sites[via].lo>>
    [] Kind(i) = "classic" -> <<1, 2, 3, 4>>
    [] OTHER -> <<1>>

(* A call, or an interrupt that makes one.                                  *)
Call(t, i, via) ==
  /\ calls < MaxCalls /\ target \in {"live", "going"} /\ NoFault
  /\ Len(stack[t]) < Depth /\ ~At(t, "trap")
  /\ calls' = calls + 1
  /\ stack' = [stack EXCEPT ![t] = Append(@,
       [hook |-> i, via |-> via, place |-> "fetch", taken |-> 0, first |-> "old",
        rec |-> 0, next |-> "", divert |-> FALSE])]
  /\ LoaderStays
  /\ UNCHANGED <<bufferVars, pool, order, faults>>

(* The stub executes the words it displaced, which may not be branches, and *)
(* a short detour must reach it.                                            *)
StubFails(i) == Hook(i).branch \in 1..Replayed(i) \/ (Kind(i) = "short" /\ ~Hook(i).near)

Fetch(t) ==
  /\ At(t, "fetch")
  /\ LET f == Top(t)
         route == Route(f.hook, f.via)
         word == text[<<f.hook, route[f.taken + 1]>>]
         first == IF f.taken = 0 THEN word ELSE f.first
         last == f.taken + 1 = Len(route)
         next == CASE ~last -> "fetch"
                   [] last /\ first = "old" -> "body"
                   [] OTHER -> IF Kind(f.hook) = "break" THEN "trap" ELSE "hook"
     IN  CASE word # first -> Fails(t, "mixed") /\ UNCHANGED stack
           [] word = first /\ next = "hook" /\ StubFails(f.hook) ->
                Fails(t, "relocated") /\ UNCHANGED stack
           [] OTHER -> /\ Replace(t, [f EXCEPT !.taken = @ + 1, !.first = first, !.place = next])
                       /\ UNCHANGED faults
  /\ LoaderStays
  /\ UNCHANGED <<bufferVars, pool, order, calls>>

(* wd_bp_notify: only a hook that is armed is looked at.                    *)
Trap(t) ==
  /\ At(t, "trap")
  /\ IF "die" \in notifiers /\ Top(t).hook \in armed
       THEN Goes(t, "hook") /\ UNCHANGED faults
       ELSE Fails(t, "panic") /\ UNCHANGED stack
  /\ LoaderStays
  /\ UNCHANGED <<bufferVars, pool, order, calls>>

AfterHook(i) ==
  IF Hook(i).nargx /\ Kind(i) # "break" THEN "argx"
  ELSE IF Hook(i).retcap THEN "enter" ELSE "body"

Numbered(t, next) ==
  /\ TakeNumber
  /\ Replace(t, [Top(t) EXCEPT !.place = "store", !.rec = seqno + 1, !.next = next])
  /\ UNCHANGED <<fifo, slots, head, tail, drops, reader, stored, got, reported>>

(* wl_diag_hook: the read of a register that is filtered is not recorded.   *)
HookCalled(t) ==
  /\ At(t, "hook")
  /\ \/ Numbered(t, AfterHook(Top(t).hook))
     \/ Hook(Top(t).hook).filtered /\ Goes(t, AfterHook(Top(t).hook)) /\ UNCHANGED bufferVars
  /\ LoaderStays
  /\ UNCHANGED <<pool, order, calls, faults>>

(* wl_diag_hook_argx                                                        *)
HookArgx(t) ==
  /\ At(t, "argx")
  /\ Numbered(t, IF Hook(Top(t).hook).retcap THEN "enter" ELSE "body")
  /\ LoaderStays
  /\ UNCHANGED <<pool, order, calls, faults>>

Emit(t) ==
  /\ At(t, "store")
  /\ Store(Top(t).rec)
  /\ IF Top(t).next = "done" THEN Pop(t) ELSE Goes(t, Top(t).next)
  /\ LoaderStays
  /\ UNCHANGED <<seqno, pool, order, calls, faults>>

(* wl_diag_enter_ret: the return is diverted if there is room to remember   *)
(* where it goes.                                                           *)
EnterRet(t) ==
  /\ At(t, "enter")
  /\ LET room == diverting /\ Cardinality(pool) < build.pool
     IN  /\ Replace(t, [Top(t) EXCEPT !.place = "body", !.divert = room])
         /\ IF room
              THEN /\ order' = order + 1
                   /\ pool' = pool \union {[task |-> t, order |-> order + 1,
                                            home |-> Len(stack[t])]}
              ELSE UNCHANGED <<pool, order>>
  /\ LoaderStays
  /\ UNCHANGED <<bufferVars, calls, faults>>

(* The hooked function returns, to its caller or to the trampoline.         *)
Return(t) ==
  /\ At(t, "body")
  /\ IF Top(t).divert THEN Goes(t, "exit") ELSE Pop(t)
  /\ LoaderStays
  /\ UNCHANGED <<bufferVars, pool, order, calls, faults>>

(* wl_diag_exit_ret takes the task's youngest entry.                        *)
TakesOldest(t, e) == \A o \in pool : o.task = t => e.order <= o.order
Takes(t, e) == \A o \in pool : o.task = t => e.order >= o.order

ExitRet(t) ==
  /\ At(t, "exit")
  /\ LET mine == {e \in pool : e.task = t /\ Takes(t, e)}
     IN  IF \E e \in mine : e.home = Len(stack[t])
           THEN /\ pool' = pool \ mine
                /\ Numbered(t, "done")
                /\ UNCHANGED faults
           ELSE Fails(t, "misled") /\ UNCHANGED <<pool, stack, bufferVars>>
  /\ LoaderStays
  /\ UNCHANGED <<order, calls>>

(***************************************************************************)
(* The system.                                                             *)
(***************************************************************************)
WordsOf(b, i) ==
  1..4 \union UNION {{s.hi, s.lo} : s \in {b.hooks[i].sites[k] : k \in DOMAIN b.hooks[i].sites}}

Init ==
  /\ BufferInit
  /\ build \in Builds
  /\ fifo = IF build.version = "3.4" THEN "kfifo" ELSE "ring"
  /\ loader = "absent" /\ work = <<>> /\ armed = {} /\ symbols = FALSE
  /\ text = [x \in UNION {{i} \X WordsOf(build, i) : i \in Hooks} |-> "old"]
  /\ target = "live" /\ ref = [mod |-> FALSE, held |-> FALSE]
  /\ notifiers = {} /\ diverting = FALSE /\ pool = {} /\ order = 0
  /\ stack = [t \in Tasks |-> <<>>] /\ calls = 0 /\ late = FALSE /\ faults = {}

Loading == Load \/ Reference \/ Arm \/ Unload \/ Disarm \/ Synchronize \/ Free
Target == TargetLeaves \/ TargetNotifies \/ TargetGone

Via(i) == IF Kind(i) = "sites" THEN DOMAIN Hook(i).sites ELSE {1}
Task(t) ==
  \/ \E i \in Eligible : \E via \in Via(i) : Call(t, i, via)
  \/ Fetch(t) \/ Trap(t) \/ HookCalled(t) \/ HookArgx(t) \/ Emit(t) \/ EnterRet(t)
  \/ Return(t) \/ ExitRet(t)

ReaderRuns ==
  /\ loader \notin {"absent", "refused", "unloaded"} /\ NoFault
  /\ Reading
  /\ UNCHANGED traceVars

Next == Loading \/ Target \/ ReaderRuns \/ \E t \in Tasks : Task(t)

Spec == Init /\ [][Next]_vars

(***************************************************************************)
(* Properties.                                                             *)
(***************************************************************************)
Disarming == {"disarming", "restored", "synced", "unloaded"}

(***************************************************************************)
(* patch_entry writes the head last: who takes the new head runs the whole *)
(* detour, until the words are written back; who took the old head or the  *)
(* first word of a pair before may be caught between.  A detour of one     *)
(* word never mixes, no displaced branch is ever executed elsewhere, and a *)
(* trap finds nobody only while it is being set or removed.                *)
(***************************************************************************)
DetourSound ==
  \A f \in faults :
    /\ f.what # "relocated"
    /\ f.what = "mixed" => f.kind \in {"classic", "sites"}
    /\ (f.what = "mixed" /\ f.kind = "classic" /\ f.first = "new") => f.phase \in Disarming
    /\ f.what = "panic" => f.phase # "armed"

(* However calls nest and tasks interleave, and full as the pool may be, a  *)
(* diverted return goes back to its own caller (wl_diag_exit_ret).  The     *)
(* code behind it is there still, but on a kernel that preempts a task in a *)
(* stub: synchronize_sched in wd_exit does not wait for that.               *)
ReturnsHome ==
  \A f \in faults :
    /\ f.what # "misled"
    /\ f.what = "freed" => build.preempt

(* Every number given is that of a record being stored, in the buffer, read *)
(* or counted as dropped; and records come out in the order they went in    *)
(* (emit, wd_read), whichever the buffer and wherever its counters wrap.    *)
Held == Quantify(Tasks \X (1..Depth),
                 LAMBDA x : x[2] <= Len(stack[x[1]]) /\ stack[x[1]][x[2]].place = "store")
Accounted ==
  /\ seqno = Held + Fill + Len(got) + drops + reported
  /\ stored = got \o Contents

(* After unloading wl is as it was, and nothing of the tracer is left in it *)
(* or registered (wd_exit).  The symbol file stays in memory only where     *)
(* loading gave up for want of a hook or of the cache's flush.              *)
TextRestored ==
  /\ (loader = "unloaded" /\ target = "live") =>
       (\A x \in DOMAIN text : text[x] = "old") /\ armed = {} /\ ~ref.held /\ notifiers = {}
  /\ (symbols /\ loader \notin {"planned", "arming"}) => Eligible = {} \/ ~build.flush

(* The tracer writes into memory wl has left only if wl was on its way out  *)
(* before the tracer asked for its reference: from then on the reference    *)
(* or the notifier keeps it from that (target_ref_get, wd_mod_notify).      *)
StrayOnlyWhenLate == \A f \in faults : f.what = "stray" => late

(* 3-4/wl_diag.c:1420: the notifier is there before the breaks, or the      *)
(* first trap panics.                                                       *)
TrapHandled == \A f \in faults : f.what # "panic"

(* 3-4/wl_diag.c:624: an addiu that is rewritten belongs to one pair only,  *)
(* so that every call of an armed function finds both words old or both new.*)
PairsWhole ==
  (loader = "armed" /\ target = "live") =>
    \A i \in {j \in Eligible : Kind(j) = "sites"} :
      \A s \in ToSet(Hook(i).sites) : text[<<i, s.hi>>] = text[<<i, s.lo>>]
=============================================================================
