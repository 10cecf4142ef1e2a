----------------------------- MODULE Ownership -----------------------------
(***************************************************************************)
(* The compiler's ownership analysis, cfg.py (CFGState), driven by the     *)
(* statement handlers of the lowering pass, and the code it emits.         *)
(*                                                                         *)
(* A behaviour first chooses a function body, one statement at a time,     *)
(* lowers it exactly as the handlers do (an epilogue stack of pending      *)
(* releases, per-branch snapshots, merges, a loop body lowered a second    *)
(* time when a borrowed name has to be promoted), and then runs the        *)
(* emitted code, every branch condition an arbitrary choice, against       *)
(* counted objects.  A statement the compiler refuses ends the behaviour   *)
(* in mode "rejected".                                                     *)
(*                                                                         *)
(* One class of reference-counted objects; conditions, ordinary calls and  *)
(* non-counted locals are left out.  Two abstractions: a merge visits the  *)
(* names in one fixed order (it only permutes releases), and the test and  *)
(* skip label around a flag-guarded release are one guarded instruction.   *)
(***************************************************************************)
EXTENDS Naturals, Sequences, FiniteSets, SequencesExt

CONSTANTS
  Locals,        \* names of the function's locals
  Param,         \* the name of its one parameter
  ParamKinds,    \* how that is declared: subset of {"borrow","move","copy"}
  Stmts,         \* kinds of statements the body may use
  Shapes,        \* source shapes admitted beyond the discipline of Admitted
  MaxStmts,      \* statements of a body, closing ones not counted
  MaxIter        \* loop iterations of one execution

ASSUME OwnershipAssumption ==
  /\ Param \notin Locals
  /\ MaxStmts \in Nat /\ MaxIter \in Nat

VARIABLES
  mode,          \* "lower", "run", "done" or "rejected"
  src, pc,       \* the body chosen so far; the next statement to lower
  returns,       \* TRUE if the function returns an object, FALSE if None
  c,             \* CFGState
  code,          \* Lowering._instructions: the list being emitted into
  frames,        \* the open if, while and with statements, innermost last
  last,          \* how the last statement of the current block ends
  m              \* the machine that runs the emitted code

vars == <<mode, src, pc, returns, c, code, frames, last, m>>

Names == Locals \cup {Param}
NoFlag == <<"-", 0>>
IsGuarded(e) == e.flag # NoFlag
Order == SetToSeq(Names)

-----------------------------------------------------------------------------
(* CFGState.  bind: name -> [st, e, v] with e the id of its entry object    *)
(* (0: None) and v the identity of its Variable; ents: the entry objects,   *)
(* whose identity the code compares; stack: their ids, oldest first.        *)

Entry(c0, i) == c0.ents[c0.stack[i]]
OnStack(c0, e) == e \in Range(c0.stack)
Binding(st, e, v) == [st |-> st, e |-> e, v |-> v]
Bind(c0, x, b) == [c0 EXCEPT !.bind = [y \in DOMAIN @ \cup {x} |-> IF y = x THEN b ELSE @[y]]]
Unbind(c0, x) == [c0 EXCEPT !.bind = [y \in DOMAIN @ \ {x} |-> @[y]]]

NewEntry(c0, x, v, flag, surv) ==
  [c0 EXCEPT !.ents = Append(@, [name |-> c0.lab + 1, x |-> x, v |-> v, canc |-> FALSE,
                                 flag |-> flag, surv |-> surv]),
             !.stack = Append(@, Len(c0.ents) + 1),
             !.lab = @ + 1]

push(c0, x, v, surv) ==
  Bind(NewEntry(c0, x, v, NoFlag, surv), x, Binding("owned", Len(c0.ents) + 1, v))

push_defer(c0, flag) == NewEntry(c0, Param, 0, flag, FALSE)

CFGInit(kind) ==
  LET c0 == [bind |-> <<>>, names |-> [x \in Names |-> IF x = Param THEN 1 ELSE 0],
             nvar |-> 1, ents |-> <<>>, stack |-> <<>>, captured |-> {},
             live |-> {Param}, ncancel |-> 0, ndefer |-> 0, shared |-> FALSE,
             lab |-> 0, conf |-> <<>>, breaks |-> <<>>, kind |-> kind]
  IN IF kind = "borrow" THEN Bind(c0, Param, Binding("borrowed", 0, 1))
     ELSE push(c0, Param, 1, FALSE)

snapshot(c0) ==
  [bind |-> c0.bind, live |-> c0.live, depth |-> Len(c0.stack), objs |-> c0.stack,
   saved |-> [i \in 1..Len(c0.stack) |-> Entry(c0, i)]]

\* An entry that carries a flag, is a goto target or was promoted for a loop
\* survives; one below the snapshot's depth is its original object again,
\* unless it has got a flag since.
restore(c0, s) ==
  LET Kept(e) == LET r == c0.ents[e] IN IsGuarded(r) \/ r.name \in c0.captured \/ r.surv
      below == [i \in 1..s.depth |-> IF IsGuarded(Entry(c0, i)) THEN c0.stack[i] ELSE s.objs[i]]
  IN [c0 EXCEPT !.bind = s.bind, !.live = s.live,
                !.stack = below \o SelectSeq(SubSeq(@, s.depth + 1, Len(@)), Kept)]

hard_restore(c0, s) ==
  [c0 EXCEPT !.bind = s.bind, !.live = s.live, !.stack = s.objs,
             !.ents = [e \in DOMAIN @ |->
                         IF e \in Range(s.objs)
                         THEN [@[e] EXCEPT !.canc = s.saved[CHOOSE i \in 1..s.depth : s.objs[i] = e].canc,
                                           !.flag = s.saved[CHOOSE i \in 1..s.depth : s.objs[i] = e].flag]
                         ELSE @[e]]]

-----------------------------------------------------------------------------
(* Instructions are tuples; the third field of a release is its flag.       *)

Incref(x) == <<"inc", x>>
Decref(x) == <<"dec", x, NoFlag>>
SetFlag(fl, b) == <<"flag", fl, b>>
Replay(e) == IF e.v = 0 THEN <<"exit", e.flag[2], e.flag>> ELSE <<"dec", e.x, e.flag>>

\* neutralize: an entry no goto targets is replaced by a cancelled copy, one
\* that is a target gets a cancel flag.  Result: the state, the entry id that
\* now stands for it, and the instructions.
neutralize(c0, e) ==
  LET n == Len(c0.ents) + 1
      fresh == c0.ents[e].flag = NoFlag
      fl == IF fresh THEN <<"c", c0.ncancel + 1>> ELSE c0.ents[e].flag
  IN IF c0.ents[e].name \notin c0.captured
     THEN [c |-> [c0 EXCEPT !.ents = Append(@, [c0.ents[e] EXCEPT !.canc = TRUE]),
                            !.stack = [i \in DOMAIN @ |-> IF @[i] = e THEN n ELSE @[i]]],
           e |-> n, i |-> <<>>]
     ELSE [c |-> [c0 EXCEPT !.ents[e].flag = fl, !.ncancel = @ + (IF fresh THEN 1 ELSE 0)],
           e |-> e, i |-> <<SetFlag(fl, FALSE)>>]

\* assign: dest gets a fresh value (y = "t") or an alias of the name y.
assign(c0, x, y) ==
  LET v == IF c0.names[x] = 0 THEN c0.nvar + 1 ELSE c0.names[x]
      c1 == [c0 EXCEPT !.live = @ \cup {x}, !.names[x] = v, !.nvar = IF v > @ THEN v ELSE @]
      known == x \in DOMAIN c1.bind /\ c1.bind[x].e # 0
  IN [c |-> IF known
            THEN Bind([c1 EXCEPT !.ents[c0.bind[x].e].canc = FALSE], x,
                      Binding("owned", c0.bind[x].e, v))
            ELSE push(c1, x, v, FALSE),
      i |-> (IF y = "t" THEN <<>> ELSE <<Incref(y)>>)
            \o (IF known /\ c0.bind[x].st = "owned" THEN <<Decref(x)>> ELSE <<>>)
            \o << <<"set", x, y>> >>]

\* move of an owned name into a call, and a release by hand
GiveUp(c0, x) ==
  LET r == neutralize(c0, c0.bind[x].e)
  IN [c |-> Bind(r.c, x, Binding("moved", r.e, c0.bind[x].v)), i |-> r.i]

move(c0, x) == GiveUp(c0, x)

manually_decreffed(c0, x) ==
  IF c0.bind[x].st = "owned" THEN GiveUp(c0, x) ELSE [c |-> c0, i |-> <<>>]

\* Mutant: the entry that was to release the name stays on the stack.
deleted_StaysLive(c0, x) ==
  [c |-> Unbind([c0 EXCEPT !.live = @ \ {x}, !.names[x] = 0], x),
   i |-> IF c0.bind[x].e # 0 /\ c0.bind[x].st = "owned" THEN <<Decref(x)>> ELSE <<>>]

deleted(c0, x) ==
  LET b == c0.bind[x]
      c1 == Unbind([c0 EXCEPT !.live = @ \ {x}, !.names[x] = 0], x)
      r == neutralize(c1, b.e)
  IN IF b.e = 0 THEN [c |-> c1, i |-> <<>>]
     ELSE [c |-> r.c, i |-> (IF b.st = "owned" THEN <<Decref(x)>> ELSE <<>>) \o r.i]

-----------------------------------------------------------------------------
(* Leaving the function.                                                    *)

has_live_entry(c0, v) ==
  v # 0 /\ \E i \in DOMAIN c0.stack : ~ Entry(c0, i).canc /\ Entry(c0, i).v = v

\* The label a return of the Variable v may jump to: 0 if the operand's own
\* entry is on the ladder, if an unguarded entry belongs to an open branch or
\* loop body, or if nothing is pending.
current_epilogue_label(c0, v) ==
  LET pending == {i \in DOMAIN c0.stack : ~ Entry(c0, i).canc}
      floor == CHOOSE d \in Range(c0.conf) : \A d2 \in Range(c0.conf) : d <= d2
      confined == /\ c0.conf # <<>>
                  /\ \E i \in pending : i > floor /\ ~ IsGuarded(Entry(c0, i))
  IN IF has_live_entry(c0, v) \/ confined \/ pending = {} THEN 0
     ELSE Entry(c0, CHOOSE i \in pending : \A j \in pending : j <= i).name

MarkCaptured(c0, l) == [c0 EXCEPT !.captured = @ \cup {l}, !.shared = TRUE]

\* return_: the releases of an inline return, newest entry first
return_(c0, v) ==
  LET Due(e) == ~ c0.ents[e].canc /\ (v = 0 \/ c0.ents[e].v # v)
      due == SelectSeq(Reverse(c0.stack), Due)
  IN [i \in DOMAIN due |-> Replay(c0.ents[due[i]])]

build_epilogue_ladder(c0) ==
  LET Rung(e) == (IF e.name \in c0.captured THEN << <<"label", e.name>> >> ELSE <<>>)
                 \o (IF e.canc THEN <<>> ELSE <<Replay(e)>>)
  IN FoldLeft(LAMBDA acc, e : acc \o Rung(c0.ents[e]), <<>>, Reverse(c0.stack))

\* Mutant: break and continue just jump.
unwind_to_Nothing(c0, s) == <<>>

\* break and continue release what the loop body has pushed
unwind_to(c0, s) ==
  LET Due(e) == ~ c0.ents[e].canc /\ ~ IsGuarded(c0.ents[e])
      due == SelectSeq(Reverse(SubSeq(c0.stack, s.depth + 1, Len(c0.stack))), Due)
  IN [i \in DOMAIN due |-> Decref(c0.ents[due[i]].x)]

-----------------------------------------------------------------------------
(* merge_if.  A branch end is [bind, live, names, term]; the accumulator r  *)
(* is [c, t, f, ok]: state, what each branch must still do, no error.       *)

Emit(r, side, ins) ==
  [r EXCEPT !.t = IF side # "f" THEN @ \o ins ELSE @, !.f = IF side # "t" THEN @ \o ins ELSE @]

Neutralize(r, e, side) == LET n == neutralize(r.c, e) IN Emit([r EXCEPT !.c = n.c], side, n.i)

reestablish(c0, x, b, already) ==
  IF b.st # "owned" THEN Bind(c0, x, Binding(b.st, 0, b.v))
  ELSE IF already THEN Bind(c0, x, b) ELSE push(c0, x, b.v, FALSE)

\* the entry of a name both the code before the if and b have given up
Stale(r, ent, x, b, already) ==
  /\ ~ already /\ b.st # "owned" /\ x \in DOMAIN ent
  /\ ent[x].st = "owned" /\ ent[x].e # 0 /\ OnStack(r.c, ent[x].e)

MergeSurvivor(c0, ent, sv, side) ==
  LET Keep(r, x) ==
        IF x \notin DOMAIN sv.bind THEN r ELSE
        LET b == sv.bind[x]
            already == \/ x \in DOMAIN ent /\ ent[x].e = b.e
                       \/ b.e # 0 /\ OnStack(r.c, b.e)
            r1 == IF Stale(r, ent, x, b, already) THEN Neutralize(r, ent[x].e, side) ELSE r
        IN [r1 EXCEPT !.c = reestablish(@, x, b, already)]
      Lose(r, x) ==
        IF /\ x \in DOMAIN ent \ DOMAIN sv.bind /\ ent[x].e # 0
           /\ x \in DOMAIN r.c.bind /\ r.c.bind[x].e = ent[x].e
        THEN LET n == Neutralize(r, ent[x].e, side) IN [n EXCEPT !.c = Unbind(@, x)]
        ELSE r
      r0 == [c |-> c0, t |-> <<>>, f |-> <<>>, ok |-> TRUE]
      r == FoldLeft(Lose, FoldLeft(Keep, r0, Order), Order)
  IN [r EXCEPT !.c.live = sv.live]

MergeBoth(c0, ent, te, fe) ==
  LET Both(r, x) ==
        LET tb == te.bind[x]
            fb == fe.bind[x]
            own == IF tb.st = "owned" THEN tb ELSE fb
            oth == IF tb.st = "owned" THEN fb ELSE tb
            fl == <<"c", r.c.ncancel + 1>>
            pushed == push([r.c EXCEPT !.ncancel = @ + 1], x, own.v, FALSE)
            already == \/ x \in DOMAIN ent /\ ent[x].e = tb.e /\ ent[x].e = fb.e
                       \/ tb.e # 0 /\ tb.e = fb.e /\ OnStack(r.c, tb.e)
            r1 == IF Stale(r, ent, x, tb, already) THEN Neutralize(r, ent[x].e, "both") ELSE r
        IN CASE tb.st = fb.st -> [r1 EXCEPT !.c = reestablish(@, x, tb, already)]
             [] tb.st # fb.st /\ own.st = "owned" /\ oth.st = "borrowed" ->
                  Emit([r EXCEPT !.c = [pushed EXCEPT !.ents[Len(pushed.ents)].flag = fl]],
                       IF tb.st = "borrowed" THEN "t" ELSE "f", <<SetFlag(fl, FALSE)>>)
             [] OTHER -> [r EXCEPT !.ok = FALSE]
      One(r, x) ==
        LET side == IF x \in DOMAIN te.bind THEN "t" ELSE "f"
            b == IF side = "t" THEN te.bind[x] ELSE fe.bind[x]
        IN IF x \in DOMAIN ent THEN [r EXCEPT !.ok = FALSE]
           ELSE Emit(r, side, IF b.st = "owned" THEN <<Decref(x)>> ELSE <<>>)
      Step(r, x) == CASE x \in DOMAIN te.bind \cap DOMAIN fe.bind -> Both(r, x)
                      [] x \in SymDiff(DOMAIN te.bind, DOMAIN fe.bind) -> One(r, x)
                      [] OTHER -> r
      r == FoldLeft(Step, [c |-> c0, t |-> <<>>, f |-> <<>>, ok |-> TRUE], Order)
  IN [r EXCEPT !.c.live = te.live \cap fe.live]

merge_if(c0, ent, te, fe) ==
  CASE te.term /\ fe.term -> [c |-> [c0 EXCEPT !.live = {}], t |-> <<>>, f |-> <<>>, ok |-> TRUE]
    [] te.term /\ ~ fe.term -> MergeSurvivor(c0, ent, fe, "f")
    [] ~ te.term /\ fe.term -> MergeSurvivor(c0, ent, te, "t")
    [] OTHER -> MergeBoth(c0, ent, te, fe)

-----------------------------------------------------------------------------
(* Loops.                                                                   *)

\* loop_back_edge: the states of the names agree with the loop's entry; what
\* the body has introduced is released.
BackEdgeAgrees(c0, ent) == \A x \in DOMAIN ent : x \in DOMAIN c0.bind /\ c0.bind[x].st = ent[x].st

loop_back_edge(c0, ent) ==
  LET Fresh(x) == x \in DOMAIN c0.bind \ DOMAIN ent /\ c0.bind[x].st = "owned"
      due == SelectSeq(Order, Fresh)
  IN [i \in DOMAIN due |-> Decref(due[i])]

find_promotable_loop_mismatches(c0, ent) ==
  {x \in DOMAIN ent \cap DOMAIN c0.bind : ent[x].st = "borrowed" /\ c0.bind[x].st = "owned"}

promote_borrowed_for_loop(c0, x) == push(c0, x, c0.bind[x].v, TRUE)

merge_loop_exits(c0, natural, breaks) ==
  [c0 EXCEPT !.live = {x \in natural : \A b \in breaks : x \in b}]

enter_loop(c0, depth) == [c0 EXCEPT !.conf = Append(@, depth), !.breaks = Append(@, {})]
exit_loop(c0) == [c0 EXCEPT !.conf = Front(@), !.breaks = Front(@)]
enter_branch(c0, depth) == [c0 EXCEPT !.conf = Append(@, depth)]
exit_branch(c0) == [c0 EXCEPT !.conf = Front(@)]
record_break_live(c0) == [c0 EXCEPT !.breaks[Len(c0.breaks)] = @ \cup {c0.live}]

-----------------------------------------------------------------------------
(* The statement handlers.  Take(t): the next statement is t, replayed from *)
(* src while a loop body is lowered again and chosen otherwise.             *)

Closers == {"else", "endif", "endwhile", "endwith", "end"}
Diverged == last \in {"return", "diverges"}
InLoop == \E i \in DOMAIN frames : frames[i].k = "while"
LoopIndex == CHOOSE i \in DOMAIN frames :
               frames[i].k = "while" /\ \A j \in i + 1..Len(frames) : frames[j].k # "while"
Top == frames[Len(frames)]

Replaying == pc <= Len(src)

Take(t) ==
  /\ mode = "lower"
  /\ IF Replaying THEN src[pc] = t
     ELSE /\ t[1] \in Stmts
          /\ Diverged => t[1] \in Closers
          /\ \/ t[1] \in Closers
             \/ Cardinality({i \in DOMAIN src : src[i][1] \notin Closers}) < MaxStmts

Advance(t) ==
  /\ pc' = pc + 1
  /\ src' = IF Replaying THEN src ELSE Append(src, t)

\* Where the body stands in the block that is open: the depth its names start at
BlockDepth == IF c.conf = <<>> THEN 0 ELSE c.conf[Len(c.conf)]
OfThisBlock(x) ==
  \E i \in BlockDepth + 1..Len(c.stack) : c.stack[i] = c.bind[x].e /\ ~ Entry(c, i).surv
Promoted == InLoop /\ \E i \in frames[LoopIndex].snap.depth + 1..Len(c.stack) : Entry(c, i).surv

\* The discipline the bodies keep, unless Shapes lifts a rule:
\*   outer     a name is given up in the block that introduced it, a parameter
\*             in no block;
\*   early     ... and not, nor is a with body ended, once a return has jumped to
\*             an entry above its own;
\*   moved     a name that was moved is not used or assigned again;
\*   partial   a name owned on some paths only is not assigned, given up or
\*             returned, and a borrowed one is assigned in no if around another block;
\*   promoted  no break or continue in a loop that promotes a name;
\*   defer     a function that returns an object registers no defer and
\*             no with in a block.
Gives(x) == x \in DOMAIN c.bind => IF c.bind[x].e = 0 THEN c.conf = <<>> ELSE OfThisBlock(x)
JumpedOver(e) ==
  \E i, j \in DOMAIN c.stack : i < j /\ c.stack[i] = e /\ Entry(c, j).name \in c.captured
Moved(x) == x \in DOMAIN c.bind /\ c.bind[x].st = "moved"
Borrowed(x) == x \in DOMAIN c.bind /\ c.bind[x].st = "borrowed"
Partial(x) == x \in DOMAIN c.bind /\ c.bind[x].e # 0 /\ IsGuarded(c.ents[c.bind[x].e])

Admitted(t) ==
  /\ "outer" \in Shapes \/ (t[1] \in {"del", "move", "drop"} => Gives(t[2]))
  /\ "early" \in Shapes \/
       /\ t[1] \in {"del", "move", "drop"} /\ t[2] \in DOMAIN c.bind => ~ JumpedOver(c.bind[t[2]].e)
       /\ t[1] = "endwith" => Diverged \/ ~ JumpedOver(Top.e)
  /\ "moved" \in Shapes \/ (t[1] \in {"new", "alias", "return"} => \A i \in 2..Len(t) : ~ Moved(t[i]))
  /\ "partial" \in Shapes \/ (t[1] \in {"new", "alias", "return", "del", "move", "drop"} => ~ Partial(t[2]))
  /\ "partial" \in Shapes \/ (t[1] \in {"new", "alias"} /\ Borrowed(t[2]) =>
                                \A i, j \in DOMAIN frames : i < j /\ frames[i].k = "if" => frames[j].k = "with")
  /\ "promoted" \in Shapes \/ (t[1] \in {"break", "continue"} => ~ Promoted)
  /\ "defer" \in Shapes \/ (t[1] \in {"defer", "with"} => ~ returns \/ frames = <<>>)

Idle == [ip |-> 0]

\* discovery.fail, or a loop whose second lowering leaves the discipline
Reject ==
  /\ mode' = "rejected"
  /\ src' = <<>> /\ pc' = 1 /\ returns' = FALSE
  /\ c' = Idle /\ code' = <<>> /\ frames' = <<>> /\ last' = "none" /\ m' = Idle

\* A simple statement t: refused unless ok, else the new state and code
Simple(t, ok, r, ending) ==
  /\ Take(t)
  /\ Replaying \/ Admitted(t)
  /\ IF ~ Admitted(t) \/ ~ ok THEN Reject
     ELSE /\ Advance(t)
          /\ c' = r.c /\ code' = code \o r.i /\ last' = ending
          /\ UNCHANGED <<mode, returns, frames, m>>

Readable(x) == c.names[x] # 0 /\ x \in c.live      \* _expr_Name's gate

StmtNew(x) ==
  LET r == assign(c, x, "t")
  IN Simple(<<"new", x>>, TRUE, [c |-> r.c, i |-> << <<"new">> >> \o r.i], "plain")

StmtAlias(x, y) ==
  Simple(<<"alias", x, y>>, Readable(y), assign(c, x, y), "plain")

StmtDelete(x) ==
  Simple(<<"del", x>>, Readable(x), deleted(c, x), "plain")

StmtMove(x) ==
  LET r == move(c, x)
  IN Simple(<<"move", x>>, Readable(x) /\ c.bind[x].st = "owned",
            [c |-> r.c, i |-> r.i \o << <<"eat", x>> >>], "plain")

StmtDrop(x) ==
  LET r == manually_decreffed(c, x)
  IN Simple(<<"drop", x>>, Readable(x),
            [c |-> r.c, i |-> (IF c.bind[x].st = "owned" THEN <<Decref(x)>> ELSE <<>>) \o r.i],
            "plain")

\* _register_defer_block
RegisterDefer(c0) ==
  LET fl == <<"d", c0.ndefer + 1>>
  IN [c |-> push_defer([c0 EXCEPT !.ndefer = @ + 1], fl), i |-> <<SetFlag(fl, TRUE)>>]

StmtDefer == Simple(<<"defer">>, ~ InLoop, RegisterDefer(c), "plain")

Unwinding == unwind_to(c, frames[LoopIndex].snap)
WithInLoop == \E i \in DOMAIN frames : i > LoopIndex /\ frames[i].k = "with"

StmtBreak ==
  InLoop /\ Simple(<<"break">>, ~ WithInLoop,
    [c |-> record_break_live(c),
     i |-> Unwinding \o << <<"jump", frames[LoopIndex].endL>> >>], "diverges")

StmtContinue ==
  InLoop /\ Simple(<<"continue">>, ~ WithInLoop,
    [c |-> c, i |-> Unwinding \o << <<"jump", frames[LoopIndex].startL>> >>], "diverges")

\* _stmt_Return of a name, of a fresh value ("t") or of nothing ("none")
StmtReturn(y) ==
  LET v == IF y \in Names THEN c.names[y] ELSE 0
      made == IF y = "t" THEN << <<"new">> >> ELSE <<>>
      kept == IF y \in Names /\ ~ has_live_entry(c, v) THEN <<Incref(y)>> ELSE <<>>
      l == current_epilogue_label(c, v)
      r == IF l # 0
           THEN [c |-> MarkCaptured(c, l),
                 i |-> (IF returns THEN << <<"set", "slot", y>> >> ELSE <<>>) \o << <<"jump", l>> >>]
           ELSE [c |-> c, i |-> return_(c, v) \o << <<"ret", y>> >>]
  IN /\ returns <=> y # "none"
     /\ Simple(<<"return", y>>, y \in Names => Readable(y),
               [c |-> r.c, i |-> made \o kept \o r.i], "return")

-----------------------------------------------------------------------------
(* Compound statements.  A branch is emitted into a list of its own.        *)

EndOf(c0) == [bind |-> c0.bind, live |-> c0.live, names |-> c0.names, term |-> Diverged]

\* _reconcile_names: the names before the if, and what a branch introduced
Reconcile(before, ends) ==
  [x \in Names |-> IF before[x] # 0 \/ ends = <<>> THEN before[x]
                   ELSE FoldLeft(LAMBDA acc, e : IF e[x] # 0 THEN e[x] ELSE acc, 0, ends)]

StmtIf ==
  LET t == <<"if">>
      l == c.lab + 1
      c1 == [c EXCEPT !.lab = l]
  IN /\ Take(t) /\ Advance(t)
     /\ frames' = Append(frames, [k |-> "if", snap |-> snapshot(c), names |-> c.names, elseL |-> l,
                                  outer |-> Append(code, <<"test", l, FALSE>>),
                                  els |-> FALSE, tcode |-> <<>>, tend |-> EndOf(c)])
     /\ c' = enter_branch(c1, Len(c.stack))
     /\ code' = <<>> /\ last' = "none"
     /\ UNCHANGED <<mode, returns, m>>

StmtElse ==
  LET t == <<"else">>
      c1 == restore(exit_branch(c), Top.snap)
  IN /\ frames # <<>> /\ Top.k = "if" /\ ~ Top.els
     /\ Take(t) /\ Advance(t)
     /\ frames' = [frames EXCEPT ![Len(frames)] =
                     [@ EXCEPT !.els = TRUE, !.tcode = code, !.tend = EndOf(c)]]
     /\ c' = enter_branch([c1 EXCEPT !.names = Reconcile(Top.names, <<c.names>>)], Top.snap.depth)
     /\ code' = <<>> /\ last' = "none"
     /\ UNCHANGED <<mode, returns, m>>

StmtIfEnd ==
  LET t == <<"endif">>
      tend == IF Top.els THEN Top.tend ELSE EndOf(c)
      fend == IF Top.els THEN EndOf(c)
              ELSE [bind |-> Top.snap.bind, live |-> Top.snap.live, names |-> Top.names, term |-> FALSE]
      tcode == IF Top.els THEN Top.tcode ELSE code
      fcode == IF Top.els THEN code ELSE <<>>
      c1 == restore(exit_branch(c), Top.snap)
      c2 == [c1 EXCEPT !.names = Reconcile(Top.names, <<tend.names, fend.names>>)]
      r == merge_if(c2, Top.snap.bind, tend, fend)
      endL == r.c.lab + 1
  IN /\ frames # <<>> /\ Top.k = "if"
     /\ Take(t)
     /\ IF ~ r.ok THEN Reject
        ELSE /\ Advance(t)
             /\ c' = [r.c EXCEPT !.lab = endL]
             /\ code' = Top.outer \o tcode \o r.t \o
                        (IF Top.els \/ r.f # <<>>
                         THEN << <<"jump", endL>>, <<"label", Top.elseL>> >> \o fcode \o r.f
                              \o << <<"label", endL>> >>
                         ELSE << <<"label", Top.elseL>> >>)
             /\ frames' = Front(frames)
             /\ last' = IF tend.term /\ fend.term THEN "diverges" ELSE "plain"
             /\ UNCHANGED <<mode, returns, m>>

\* One attempt n at a loop body, from the state c0 and the code ins
Attempt(outer, c0, ins, f, n) ==
  /\ frames' = Append(outer, [f EXCEPT !.body = snapshot(c0), !.code = ins, !.ncancel = c0.ncancel,
                                       !.ndefer = c0.ndefer, !.names = c0.names, !.attempt = n])
  /\ c' = enter_loop(c0, f.snap.depth)
  /\ code' = ins /\ last' = "none"
  /\ UNCHANGED <<mode, returns, m>>

StmtWhile ==
  LET t == <<"while">>
      l == c.lab + 1
  IN /\ Take(t) /\ Advance(t)
     /\ Attempt(frames, [c EXCEPT !.lab = l + 1],
                code \o << <<"label", l>>, <<"test", l + 1, TRUE>> >>,
                [k |-> "while", snap |-> snapshot(c), body |-> snapshot(c), startL |-> l, endL |-> l + 1,
                 mark |-> Len(code), pc |-> pc + 1, code |-> <<>>, ncancel |-> 0, ndefer |-> 0,
                 names |-> c.names, attempt |-> 1], 1)

\* The end of a loop body, lowered
WhileDone ==
  LET t == <<"endwhile">>
      c1 == exit_loop(c)
      c2 == merge_loop_exits(restore(c1, Top.snap), Top.snap.live, c.breaks[Len(c.breaks)])
  IN /\ frames # <<>> /\ Top.k = "while"
     /\ Take(t)
     /\ BackEdgeAgrees(c, Top.snap.bind)
     /\ Advance(t)
     /\ c' = c2
     /\ code' = code \o loop_back_edge(c1, Top.snap.bind)
                \o << <<"jump", Top.startL>>, <<"label", Top.endL>> >>
     /\ frames' = Front(frames) /\ last' = "plain"
     /\ UNCHANGED <<mode, returns, m>>

\* The states disagree: refused, or everything since the test is undone, the
\* borrowed names are promoted before the loop and the body is lowered again.
WhileRetry ==
  LET t == <<"endwhile">>
      ps == find_promotable_loop_mismatches(c, Top.snap.bind)
      seq == SelectSeq(Order, LAMBDA x : x \in ps)
      c1 == hard_restore([exit_loop(c) EXCEPT !.ncancel = Top.ncancel, !.ndefer = Top.ndefer,
                                              !.names = Top.names], Top.body)
      c2 == FoldLeft(promote_borrowed_for_loop, c1, seq)
      incs == [i \in DOMAIN seq |-> Incref(seq[i])]
      snap2 == [Top.snap EXCEPT !.bind = [x \in DOMAIN @ |-> IF x \in ps THEN c2.bind[x] ELSE @[x]]]
      f == [Top EXCEPT !.snap = snap2]
      ins == SubSeq(Top.code, 1, Top.mark) \o incs \o SubSeq(Top.code, Top.mark + 1, Len(Top.code))
  IN /\ frames # <<>> /\ Top.k = "while"
     /\ Take(t)
     /\ ~ BackEdgeAgrees(c, Top.snap.bind)
     /\ IF Top.attempt = 2 \/ ps = {} THEN Reject
        ELSE /\ src' = (IF Replaying THEN src ELSE Append(src, t))
             /\ pc' = Top.pc
             /\ Attempt(Front(frames), c2, ins, f, 2)

\* with: __exit__ is a defer that the end of the body runs in place
StmtWith ==
  LET t == <<"with">>
      r == RegisterDefer(c)
  IN /\ Take(t) /\ Admitted(t) /\ Advance(t)
     /\ c' = r.c /\ code' = code \o r.i /\ last' = "none"
     /\ frames' = Append(frames, [k |-> "with", e |-> r.c.stack[Len(r.c.stack)]])
     /\ UNCHANGED <<mode, returns, m>>

\* Mutant: __exit__ stays pending after the with statement has called it.
disarm_defer_StaysArmed(c0, e) == [c |-> c0, e |-> e, i |-> <<>>]

disarm_defer(c0, e) == neutralize(c0, e)

StmtWithEnd ==
  LET t == <<"endwith">>
      r == disarm_defer(c, Top.e)
  IN /\ frames # <<>> /\ Top.k = "with"
     /\ Take(t)
     /\ IF ~ Admitted(t) THEN Reject
        ELSE /\ Advance(t)
             /\ c' = IF Diverged THEN c ELSE r.c
             /\ code' = IF Diverged THEN code
                        ELSE code \o r.i \o << <<"exit", c.ents[Top.e].flag[2], NoFlag>> >>
             /\ last' = IF Diverged THEN "diverges" ELSE "plain"
             /\ frames' = Front(frames)
             /\ UNCHANGED <<mode, returns, m>>

-----------------------------------------------------------------------------
(* The closing brace: the shared epilogue is emitted when control can fall  *)
(* into a pending entry, a return has jumped to it, or a cancel flag exists. *)

Prologue(kind) == IF kind = "copy" THEN <<Incref(Param)>> ELSE <<>>

\* _emit_epilogue
WithEpilogue(c0, ins) ==
  LET start == Len(Prologue(c0.kind))
      inits == [k \in 1..c0.ndefer |-> SetFlag(<<"d", k>>, FALSE)]
               \o [k \in 1..c0.ncancel |-> SetFlag(<<"c", k>>, TRUE)]
  IN SubSeq(ins, 1, start) \o inits \o SubSeq(ins, start + 1, Len(ins))
     \o build_epilogue_ladder(c0) \o << <<"ret", IF returns THEN "slot" ELSE "none">> >>

MachineInit(kind, ndefer) ==
  [ip |-> 1, env |-> [x \in Names \cup {"t", "slot"} |-> IF x = Param THEN 1 ELSE 0],
   rc |-> <<1>>, share |-> IF kind = "move" THEN 0 ELSE 1, flag |-> <<>>, iters |-> 0,
   armed |-> [k \in 1..ndefer |-> 0], ran |-> [k \in 1..ndefer |-> 0], ret |-> 0, fault |-> "none"]

FnEnd ==
  LET falls == last # "return"
      epilogue == \/ falls /\ current_epilogue_label(c, 0) # 0
                  \/ c.shared \/ c.ncancel > 0
  IN /\ frames = <<>>
     /\ Take(<<"end">>)
     /\ IF returns /\ ~ Diverged THEN Reject
        ELSE /\ code' = IF epilogue THEN WithEpilogue(c, code)
                        ELSE IF ~ returns /\ falls THEN Append(code, <<"ret", "none">>) ELSE code
             /\ mode' = "run" /\ m' = MachineInit(c.kind, c.ndefer)
             /\ src' = <<>> /\ pc' = 1 /\ c' = Idle /\ frames' = <<>> /\ last' = "none"
             /\ returns' = FALSE

-----------------------------------------------------------------------------
(* Running the emitted code.  A fault ends the run.                         *)

Op == code[m.ip]
Alive(o) == o # 0 /\ m.rc[o] > 0
Targets(l) == {i \in DOMAIN code : code[i] = <<"label", l>>}
SetIn(f, k, v) == [x \in DOMAIN f \cup {k} |-> IF x = k THEN v ELSE f[x]]

Running(op) == mode = "run" /\ m.fault = "none" /\ Op[1] = op
Goto(m1, i) == m' = [m1 EXCEPT !.ip = i] /\ UNCHANGED <<mode, src, pc, returns, c, code, frames, last>>
Step(m1) == Goto(m1, m.ip + 1)
Fault(what) ==
  /\ m' = [m EXCEPT !.fault = what] /\ mode' = "done"
  /\ UNCHANGED <<src, pc, returns, c, code, frames, last>>

RunNew == Running("new") /\ Step([m EXCEPT !.rc = Append(@, 1), !.env["t"] = Len(m.rc) + 1])

RunIncref ==
  /\ Running("inc")
  /\ IF Alive(m.env[Op[2]]) THEN Step([m EXCEPT !.rc[m.env[Op[2]]] = @ + 1]) ELSE Fault("released")

\* a release under a flag is skipped when the flag is down
Guarded(fl, m1) ==
  CASE fl # NoFlag /\ fl \notin DOMAIN m.flag -> Fault("flag")
    [] fl \in DOMAIN m.flag /\ ~ m.flag[fl] -> Step(m)
    [] OTHER -> Step(m1)

Release(o, fl) ==
  IF Alive(o) \/ (fl \in DOMAIN m.flag /\ ~ m.flag[fl])
  THEN Guarded(fl, [m EXCEPT !.rc[o] = @ - 1]) ELSE Fault("released")

RunDecref == Running("dec") /\ Release(m.env[Op[2]], Op[3])
RunEat == Running("eat") /\ Release(m.env[Op[2]], NoFlag)
RunExit == Running("exit") /\ Guarded(Op[3], [m EXCEPT !.ran[Op[2]] = @ + 1])
RunSet ==
  /\ Running("set")
  /\ IF Alive(m.env[Op[3]]) THEN Step([m EXCEPT !.env[Op[2]] = m.env[Op[3]]]) ELSE Fault("released")
RunFlag ==
  /\ Running("flag")
  /\ Step([m EXCEPT !.flag = SetIn(@, Op[2], Op[3]),
                    !.armed = IF Op[2][1] = "d" /\ Op[3] THEN [@ EXCEPT ![Op[2][2]] = @ + 1] ELSE @])
RunLabel == Running("label") /\ Step(m)
JumpTo(l) == IF Cardinality(Targets(l)) = 1 THEN Goto(m, CHOOSE i \in Targets(l) : TRUE) ELSE Fault("label")
RunJump == Running("jump") /\ JumpTo(Op[2])
RunTest ==
  /\ Running("test")
  /\ \/ JumpTo(Op[2])
     \/ /\ Op[3] => m.iters < MaxIter
        /\ Step([m EXCEPT !.iters = IF Op[3] THEN @ + 1 ELSE @])
RunReturn ==
  /\ Running("ret")
  /\ m' = [m EXCEPT !.ret = IF Op[2] = "none" THEN 0 ELSE m.env[Op[2]]]
  /\ mode' = "done"
  /\ UNCHANGED <<src, pc, returns, c, code, frames, last>>

-----------------------------------------------------------------------------
Init ==
  \E kind \in ParamKinds :
    /\ mode = "lower" /\ src = <<>> /\ pc = 1 /\ returns \in BOOLEAN
    /\ c = CFGInit(kind) /\ code = Prologue(kind)
    /\ frames = <<>> /\ last = "none" /\ m = Idle

Lower ==
  \/ \E x \in Locals \cup {Param} : StmtNew(x) \/ StmtDelete(x) \/ StmtMove(x) \/ StmtDrop(x)
  \/ \E x \in Locals \cup {Param}, y \in Locals \cup {Param} : x # y /\ StmtAlias(x, y)
  \/ \E y \in Names \cup {"t", "none"} : StmtReturn(y)
  \/ StmtDefer \/ StmtBreak \/ StmtContinue
  \/ StmtIf \/ StmtElse \/ StmtIfEnd
  \/ StmtWhile \/ WhileDone \/ WhileRetry
  \/ StmtWith \/ StmtWithEnd
  \/ FnEnd

Run ==
  \/ RunNew \/ RunIncref \/ RunDecref \/ RunEat \/ RunExit \/ RunSet
  \/ RunFlag \/ RunLabel \/ RunJump \/ RunTest \/ RunReturn

Finished == mode \in {"done", "rejected"} /\ UNCHANGED vars

Next == Lower \/ Run \/ Finished

Spec == Init /\ [][Next]_vars

-----------------------------------------------------------------------------
\* An accepted body runs without a fault: no instruction touches an object
\* after its last release, no flag is tested that was not initialised on the
\* path to the test, and every goto has one target.  Of bodies outside Admitted
\* it is not claimed: a defer or with in a block of a function that returns an
\* object tests an uninitialised flag, and a name given up in a block it does
\* not belong to, or after it was moved, is released twice.
CleanRun == m # Idle => m.fault = "none"

\* At the return every object is held exactly by whom it should be: the
\* caller's own share of the parameter, and the returned reference.  Outside
\* Admitted this fails for a name given up in one branch or behind a return that
\* has jumped over its entry, for one owned on some paths only and then used,
\* and for a break or continue in a loop that promotes a name.
Balanced ==
  mode = "done" /\ m.fault = "none" =>
    \A o \in DOMAIN m.rc : m.rc[o] = (IF o = 1 THEN m.share ELSE 0) + (IF o = m.ret THEN 1 ELSE 0)

\* Every armed defer and every entered with body has run its exit exactly once
\* when the function returns, whichever way it left.  Admitted leaves out a with
\* body that ends after a return in it has jumped to an entry above its own;
\* with the shape "early" admitted the property fails there.
ExitsOnce == mode = "done" /\ m.fault = "none" => m.ran = m.armed
=============================================================================
