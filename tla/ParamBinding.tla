---------------------------- MODULE ParamBinding ----------------------------
(***************************************************************************)
(* The parameters of one prepared statement (ODBCStmt.Exec in odbcstmt.go, *)
(* param.go, sqlOut.go), executed again and again.  Each call binds every  *)
(* argument anew; arrays make the statement run once for each element; an  *)
(* sql.Out has the value the server returns stored in its destination.     *)
(* Four things outlive a call: the bindings and SQL_ATTR_PARAMSET_SIZE,    *)
(* which the CLI keeps, Parameter.Outs, to which calls only append, and    *)
(* Parameter.StrLen_or_IndPtr, which not every argument sets.  A value is  *)
(* known by the call and the parameter it is the result of.                *)
(*                                                                         *)
(* Parameters lie one after the other, WordsPerParameter words each, and   *)
(* WordsLeft of them follow the indicator in its own Parameter: the CLI,   *)
(* which reads an indicator for each element of an array of numbers, reads *)
(* those words, and then the indicators of the parameters to the right.    *)
(***************************************************************************)
EXTENDS Integers, Sequences, SequencesExt, FiniteSets

CONSTANTS NumParams,   \* parameters of the statement
          Dests,       \* variables of the client, destinations of sql.Out
          Lens,        \* lengths of arrays
          WordsPerParameter, WordsLeft,
          None,        \* no destination
          MaxExecs     \* bound: calls of Exec

ASSUME ParamBindingAssumption ==
  /\ NumParams \in Nat \ {0} /\ MaxExecs \in Nat
  /\ Lens \subseteq Nat \ {1} /\ None \notin Dests
  /\ WordsPerParameter \in Nat /\ WordsLeft \in 0 .. WordsPerParameter

VARIABLES bindings,    \* what SQLBindParameter registered last
          outs,        \* Parameter.Outs
          isNull,      \* is StrLen_or_IndPtr SQL_NULL_DATA?
          paramset,    \* SQL_ATTR_PARAMSET_SIZE
          dest,        \* the value in each destination
          execs,       \* calls of Exec
          last,        \* history: the last call
          ever,        \* history: the parameters a destination was passed at
          nils,        \* history: the parameters a nil was passed for
          sized,       \* history: has a call set paramset?
          lost         \* history: has a call ended before its outputs were written?

bindingVars == <<bindings, outs, isNull, paramset, dest, execs, last, ever, nils, sized, lost>>

Params == 1 .. NumParams

\* A driver.Value: nil; a value bound with an indicator of its own (string,
\* []byte) or without one; an array bound with the indicator (int64, bool,
\* float64) or without one (string, time.Time); or an sql.Out.
Kinds == {"nil", "text", "number", "numbers", "others", "out"}
Arg == [kind : Kinds, len : {1} \cup Lens, dest : Dests \cup {None}]
Single(kind) == [kind |-> kind, len |-> 1, dest |-> None]
ArgValues == {Single(kind) : kind \in {"nil", "text", "number"}}
             \cup [kind : {"numbers", "others"}, len : Lens, dest : {None}]
             \cup [kind : {"out"}, len : {1}, dest : Dests]
IsOut(a) == a.dest /= None
IsArray(a) == a.kind \in {"numbers", "others"}

\* The arguments of a call: no variable is the destination of two of them.
Args == { args \in [Params -> ArgValues] :
            \A p, q \in Params : IsOut(args[p]) /\ p /= q => args[p].dest /= args[q].dest }

Out == [dest : Dests, param : Params, call : 0 .. MaxExecs]
DestValue == [param : 0 .. NumParams, call : 0 .. MaxExecs]

BindingInit ==
        /\ bindings = [p \in Params |-> [call |-> 0, len |-> 0]]
        /\ outs = [p \in Params |-> <<>>]
        /\ isNull = [p \in Params |-> FALSE]
        /\ paramset = 1
        /\ dest = [d \in Dests |-> [param |-> 0, call |-> 0]]
        /\ execs = 0
        /\ last = [args |-> [p \in Params |-> Single("number")], result |-> "none",
                   sent |-> 0, nulls |-> {}]
        /\ ever = [d \in Dests |-> {}]
        /\ nils = {}
        /\ sized = FALSE /\ lost = FALSE

------------------------------------------------------------------------------
HasArray(args) == \E p \in Params : IsArray(args[p])
HasOut(args) == \E p \in Params : IsOut(args[p])
SameLengths(args) ==
  \A p, q \in Params : IsArray(args[p]) /\ IsArray(args[q]) => args[p].len = args[q].len
ArrayLength(args) == args[CHOOSE p \in Params : IsArray(args[p])].len

\* BindValue for the parameters up to n: the buffers of the arguments
\* replace those of the call before ...
BoundUpTo(args, n) ==
  [p \in Params |-> IF p <= n THEN [call |-> execs + 1, len |-> args[p].len] ELSE bindings[p]]

\* StoreStrLen_or_IndPtr; an argument bound without the indicator leaves in it
\* what it was.
NullUpTo(args, n) ==
  [p \in Params |-> IF p > n \/ args[p].kind \in {"number", "others", "out"} THEN isNull[p]
                    ELSE args[p].kind = "nil"]

\* ... and newOut allocates a buffer, not yet written to, for each sql.Out.
OutsUpTo(args, n) ==
  [p \in Params |->
     IF p <= n /\ IsOut(args[p])
       THEN Append(outs[p], [dest |-> args[p].dest, param |-> p, call |-> 0]) ELSE outs[p]]

\* SQLExecute has written to the buffers that are bound.
Written(os) == [p \in Params |->
  [i \in DOMAIN os[p] |->
     IF i > Len(outs[p]) THEN [os[p][i] EXCEPT !.call = execs + 1] ELSE os[p][i]]]

\* ConvertAssign for the first n of all Outs, parameter by parameter.
Assigned(os, n) ==
  LET all == SubSeq(FlattenSeq(os), 1, n)
  IN  [d \in Dests |->
         LET mine == { i \in DOMAIN all : all[i].dest = d }
         IN  IF mine = {} THEN dest[d]
             ELSE LET o == all[CHOOSE i \in mine : \A j \in mine : j <= i]
                  IN  [param |-> o.param, call |-> o.call]]

\* The indicators the CLI finds past that of an array of numbers: of parameters
\* to the right that are NULL, and memory behind the last Parameter.
RightNulls(args) ==
  { p \in Params : /\ args[p].kind = "numbers"
                   /\ \E q \in Params : /\ q > p /\ isNull'[q]
                                         /\ (q - p) * WordsPerParameter < args[p].len }
PastEnd(args) ==
  { p \in Params : /\ args[p].kind = "numbers"
                   /\ args[p].len - 1 > (NumParams - p) * WordsPerParameter + WordsLeft }

\* A call is over, having sent rows to the server, with NULL for an element of
\* these arrays.
Returns(args, result, rows) ==
  /\ execs' = execs + 1
  /\ \E junk \in SUBSET PastEnd(args) :
       last' = [args |-> args, result |-> result, sent |-> rows,
                nulls |-> IF rows > 0 THEN RightNulls(args) \cup junk ELSE {}]
  /\ ever' = [d \in Dests |-> ever[d] \cup { p \in Params : args[p].dest = d }]
  /\ nils' = nils \cup { p \in Params : args[p].kind = "nil" }

\* Fault variant: the error of BindValue is dropped.
ExecBindUnchecked(args) ==
  /\ \E i \in Params : bindings' = BoundUpTo(args, i - 1)
  /\ outs' = OutsUpTo(args, NumParams)
  /\ isNull' = NullUpTo(args, NumParams)
  /\ Returns(args, "ok", paramset)
  /\ UNCHANGED <<paramset, dest, sized, lost>>

\* The arguments before i are no empty arrays.
Reaches(args, i) == \A p \in 1 .. i - 1 : args[p].len > 0

\* BindValue panics, as an empty array has no first element; a client that
\* recovers may use the statement again, in the same transaction.
ExecPanics(args) ==
  /\ \E i \in Params :
       /\ Reaches(args, i) /\ args[i].len = 0
       /\ bindings' = BoundUpTo(args, i - 1)
       /\ outs' = OutsUpTo(args, i - 1)
       /\ isNull' = NullUpTo(args, i - 1)
  /\ Returns(args, "panic", 0)
  /\ lost' = (lost \/ HasOut(args))
  /\ UNCHANGED <<paramset, dest, sized>>

\* BindValue fails for parameter i: sql.Out may have allocated its buffer by
\* then (SQLBindParameter fails) or not (SQLDescribeParam).
ExecBindFails(args) ==
  /\ \E i \in Params : \E n \in {i - 1, i} :
       /\ Reaches(args, i + 1)
       /\ IsOut(args[i]) \/ n = i
       /\ bindings' = BoundUpTo(args, i - 1)
       /\ outs' = OutsUpTo(args, n)
       /\ isNull' = NullUpTo(args, i)
  /\ Returns(args, "error", 0)
  /\ lost' = (lost \/ HasOut(args))
  /\ UNCHANGED <<paramset, dest, sized>>

\* Arrays of different lengths, or SQLSetStmtAttr fails.
ExecSizeFails(args) ==
  /\ Reaches(args, NumParams + 1)
  /\ HasArray(args)
  /\ bindings' = BoundUpTo(args, NumParams)
  /\ outs' = OutsUpTo(args, NumParams)
  /\ isNull' = NullUpTo(args, NumParams)
  /\ Returns(args, "error", 0)
  /\ lost' = (lost \/ HasOut(args))
  /\ UNCHANGED <<paramset, dest, sized>>

\* Fault variant: arrays may have different lengths.
SetParamsetUnchecked(args) ==
  /\ paramset' = IF HasArray(args) THEN ArrayLength(args) ELSE paramset
  /\ sized' = (sized \/ HasArray(args))

\* SQL_ATTR_PARAMSET_SIZE is set when there is an array, and is otherwise
\* left as it is.  Arrays may be mixed with other values.
SetParamset(args) ==
  /\ SameLengths(args)
  /\ paramset' = IF HasArray(args) THEN ArrayLength(args) ELSE paramset
  /\ sized' = (sized \/ HasArray(args))

\* Fault variant: the Outs are converted also when SQLExecute found nothing.
ExecNothingAssigned(args) ==
  /\ Reaches(args, NumParams + 1)
  /\ SetParamset(args)
  /\ bindings' = BoundUpTo(args, NumParams)
  /\ outs' = OutsUpTo(args, NumParams)
  /\ isNull' = NullUpTo(args, NumParams)
  /\ Returns(args, "noData", paramset')
  /\ lost' = (lost \/ HasOut(args))
  /\ dest' = Assigned(outs', Len(FlattenSeq(outs')))

\* SQLExecute fails, or finds no row to change (SQL_NO_DATA): Exec returns
\* before it looks at the Outs.
ExecNothing(args) ==
  /\ Reaches(args, NumParams + 1)
  /\ SetParamset(args)
  /\ bindings' = BoundUpTo(args, NumParams)
  /\ outs' = OutsUpTo(args, NumParams)
  /\ isNull' = NullUpTo(args, NumParams)
  /\ \E result \in {"error", "noData"} : Returns(args, result, paramset')
  /\ lost' = (lost \/ HasOut(args))
  /\ UNCHANGED dest

\* Fault variant: only the first Out of each parameter is converted.
ExecRunsFirst(args) ==
  /\ Reaches(args, NumParams + 1)
  /\ SetParamset(args)
  /\ bindings' = BoundUpTo(args, NumParams)
  /\ outs' = Written(OutsUpTo(args, NumParams))
  /\ isNull' = NullUpTo(args, NumParams)
  /\ LET heads == [p \in Params |-> IF outs'[p] = <<>> THEN <<>> ELSE <<Head(outs'[p])>>]
     IN  dest' = Assigned(heads, Len(FlattenSeq(heads)))
  /\ Returns(args, "ok", paramset')
  /\ UNCHANGED lost

\* SQLExecute succeeds, and all Outs, also those of earlier calls, are
\* converted, until one fails.
ExecRuns(args) ==
  /\ Reaches(args, NumParams + 1)
  /\ SetParamset(args)
  /\ bindings' = BoundUpTo(args, NumParams)
  /\ outs' = Written(OutsUpTo(args, NumParams))
  /\ isNull' = NullUpTo(args, NumParams)
  /\ LET all == Len(FlattenSeq(outs'))
     IN  \E n \in 0 .. all :
           /\ dest' = Assigned(outs', n)
           /\ Returns(args, IF n = all THEN "ok" ELSE "error", paramset')
  /\ UNCHANGED lost

Exec == /\ execs < MaxExecs
        /\ \E args \in Args : \/ ExecPanics(args) \/ ExecBindFails(args)
                              \/ ExecSizeFails(args) \/ ExecNothing(args) \/ ExecRuns(args)

BindingNext == Exec

BindingSpec == BindingInit /\ [][BindingNext]_bindingVars

------------------------------------------------------------------------------
\* The variables have their types; each parameter keeps its own Outs, one at
\* most for each call.
TypeOK == /\ bindings \in [Params -> [call : 0 .. MaxExecs, len : {0, 1} \cup Lens]]
          /\ \A p \in Params : /\ Len(outs[p]) <= execs
                               /\ \A i \in DOMAIN outs[p] : /\ outs[p][i] \in Out
                                                            /\ outs[p][i].param = p
          /\ isNull \in [Params -> BOOLEAN]
          /\ paramset \in {1} \cup Lens
          /\ dest \in [Dests -> DestValue]
          /\ execs \in 0 .. MaxExecs
          /\ last.args \in [Params -> Arg]
          /\ last.result \in {"none", "ok", "noData", "error", "panic"}
          /\ last.sent \in {0, 1} \cup Lens /\ last.nulls \subseteq Params
          /\ ever \in [Dests -> SUBSET Params] /\ nils \subseteq Params
          /\ sized \in BOOLEAN /\ lost \in BOOLEAN

\* Whatever failed or panicked in calls before, SQLExecute only ever reads
\* arguments of the call it is made for: no binding of an earlier call is left,
\* whose buffer Go may have freed.
FreshBindings ==
  last.sent > 0 => \A p \in Params : bindings[p].call = execs

\* The statement runs once for each element of the arrays, or once, no array is
\* read past its end, and its elements are what the client gave; except that
\*   - without arrays it runs as often as in an earlier call that had some;
\*   - a single value among arrays is read past its end;
\*   - of an array of numbers that is longer than a Parameter, or than what
\*     follows it in the last one, an element may be sent as NULL, the former
\*     only if some call had nil for a parameter to the right.
RowsSent ==
  last.sent > 0 =>
    /\ \A p \in Params : IsArray(last.args[p]) => bindings[p].len = last.sent
    /\ ~HasArray(last.args) /\ ~sized => last.sent = 1
    /\ \A p \in last.nulls :
         \/ last.sent > WordsPerParameter /\ \E q \in nils : q > p
         \/ last.sent - 1 > (NumParams - p) * WordsPerParameter + WordsLeft

\* When Exec returns nil a destination holds what the server returned in this
\* very call, although the Outs of all earlier calls are converted again; except
\*   - that it keeps what it held when SQLExecute found no row (SQL_NO_DATA);
\*   - that it may hold an old value when an earlier call passed it for a
\*     parameter further to the right.
OutLatest ==
  [][\A p \in Params :
       LET d == last'.args[p].dest
       IN  last'.result \in {"ok", "noData"} /\ IsOut(last'.args[p]) =>
             \/ dest'[d] = [param |-> p, call |-> execs']
             \/ last'.result = "noData" /\ dest'[d] = dest[d]
             \/ last'.result = "ok" /\ \E q \in ever'[d] : q > p]_bindingVars

\* A buffer the server has never written to is copied to a destination only
\* when an earlier call had ended before it.
NothingUnwritten ==
  [][\A d \in Dests : dest'[d] /= dest[d] /\ dest'[d].call = 0 => lost]_bindingVars
==============================================================================
