-------------------------- MODULE YangErrorsProofs --------------------------
(***************************************************************************)
(* Theorems about the exceptions of YangErrors, for any number of contexts *)
(* and of exceptions in flight.  Part 1 holds for either way libyang       *)
(* stores errors: type correctness and that a text once given is kept.     *)
(* Part 2 assumes LY_LOSTORE: what is captured is the failure, and stays.  *)
(***************************************************************************)
EXTENDS YangErrors, TLAPS

-----------------------------------------------------------------------------
(* Part 1: any LogStore *)

\* LY_LOSTORE_LAST has room for one item.
RoomForItems == LogStore # "LY_LOSTORE" => \A c \in Contexts : Len(items[c]) <= 1

\* error_ points to an item that its context has.
PointsToItem(x) == IsDataError(x) => x.error_ <= Len(items[x.ctx_])

\* What what() returned is what it keeps.
SaidIsKept(x) == IsDataError(x) => x.said = None \/ x.said = x.what_buf_

IInv ==
  /\ TypeOK
  /\ RoomForItems
  /\ \A e \in Slots : PointsToItem(thrown[e]) /\ SaidIsKept(thrown[e])

\* A log call (Exceptions.hpp:47 reads what it leaves) never shortens an error
\* list: it appends an item, overwrites the only one, or stores nothing.
LEMMA LogsGrow ==
  ASSUME IInv, NEW c \in Contexts, Logs(c), logged + 1 <= MaxMessages
  PROVE  /\ logged' \in Messages
         /\ items' \in [Contexts -> Seq(Messages)]
         /\ \A d \in Contexts : Len(items[d]) <= Len(items'[d])
         /\ RoomForItems'
<1>1. logged' \in Messages
  BY ErrorsAssumption DEF IInv, TypeOK, Logs, Messages
<1>2. /\ Store(c, logged') \in Seq(Messages)
      /\ Len(items[c]) <= Len(Store(c, logged'))
      /\ LogStore # "LY_LOSTORE" => Len(Store(c, logged')) <= 1
  <2>0. items[c] \in Seq(Messages)
    BY DEF IInv, TypeOK
  <2>1. CASE c \in NullContexts
    BY <2>0, <2>1 DEF Store, IInv, RoomForItems
  <2>2. CASE c \notin NullContexts /\ LogStore = "LY_LOSTORE"
    BY <1>1, <2>0, <2>2 DEF Store
  <2>3. CASE c \notin NullContexts /\ LogStore # "LY_LOSTORE"
    <3>1. Store(c, logged') = <<logged'>>
      BY <2>3 DEF Store
    <3>2. Len(items[c]) <= 1
      BY <2>3 DEF IInv, RoomForItems
    <3>3. QED
      BY <1>1, <3>1, <3>2
  <2>4. QED
    BY <2>1, <2>2, <2>3
<1>3. items' = [items EXCEPT ![c] = Store(c, logged')]
  BY DEF Logs
<1>4. QED
  BY <1>1, <1>2, <1>3 DEF IInv, TypeOK, RoomForItems

\* The text that what() puts together for a YangDataError is made of a message
\* and of modules of its context (Exceptions.hpp:60-98).
LEMMA DataTextType ==
  ASSUME IInv, NEW x \in Errors, IsDataError(x), PointsToItem(x)
  PROVE  DataText(x) \in Texts
<1>1. MessageCaptured(x) \in Messages \union {Freed}
  <2>1. CASE x.error_ = 0
    BY <2>1 DEF MessageCaptured, MessageOf, ly_last_logmsg, IInv, TypeOK
  <2>2. CASE x.error_ # 0 /\ Live(x)
    <3>1. x.error_ \in 1..Len(items[x.ctx_]) /\ items[x.ctx_] \in Seq(Messages)
      BY <2>2 DEF PointsToItem, Errors, IInv, TypeOK
    <3>2. items[x.ctx_][x.error_] \in Messages
      BY <3>1
    <3>3. QED
      BY <2>2, <3>2 DEF MessageCaptured, MessageOf
  <2>3. CASE x.error_ # 0 /\ ~Live(x)
    BY <2>3 DEF MessageCaptured, MessageOf
  <2>4. QED
    BY <2>1, <2>2, <2>3
<1>2. loaded[x.ctx_] \in 0..MaxModules
  BY DEF IInv, TypeOK, Errors
<1>3. Listed(x.ctx_) \subseteq 1..MaxModules
  BY <1>2, ErrorsAssumption DEF Listed
<1>4. QED
  BY <1>1, <1>2, <1>3, ErrorsAssumption DEF DataText, Texts

\* What an exception relies on survives every step that leaves it alone.
LEMMA UntouchedSurvives ==
  ASSUME IInv, TypeOK', NEW e \in Slots, thrown'[e] = thrown[e],
         \A d \in Contexts : Len(items[d]) <= Len(items'[d])
  PROVE  PointsToItem(thrown[e])' /\ SaidIsKept(thrown[e])'
<1>1. IsDataError(thrown[e]) => thrown[e] \in Errors
  BY DEF IInv, TypeOK, IsDataError
<1>2. IsDataError(thrown[e]) =>
        /\ thrown[e].ctx_ \in Contexts
        /\ thrown[e].error_ \in Nat
  BY <1>1 DEF Errors
<1>3. IsDataError(thrown[e]) =>
        Len(items[thrown[e].ctx_]) \in Nat /\ Len(items'[thrown[e].ctx_]) \in Nat
  BY <1>2 DEF IInv, TypeOK
<1>4. QED
  BY <1>2, <1>3 DEF IInv, PointsToItem, SaidIsKept, IsDataError

\* An exception that has just been thrown.
LEMMA ThrownType ==
  ASSUME TypeOK, logged' \in Messages,
         NEW c \in Contexts, NEW item \in Nat, NEW why \in Messages
  PROVE  DataError(c, item, why) \in Errors
BY DEF DataError, Errors

\* A step that throws, speaks or ends in one slot keeps the invariant if what it
\* puts there does.
LEMMA SlotStep ==
  ASSUME IInv, NEW e \in Slots, NEW y \in Errors \union {None},
         thrown' = [thrown EXCEPT ![e] = y],
         logged' \in Messages,
         items' \in [Contexts -> Seq(Messages)],
         \A d \in Contexts : Len(items[d]) <= Len(items'[d]),
         RoomForItems',
         UNCHANGED <<loaded, alive, buf>>,
         IsDataError(y) => y.error_ <= Len(items'[y.ctx_]),
         SaidIsKept(y)
  PROVE  IInv'
<1>1. TypeOK'
  BY DEF IInv, TypeOK
<1>2. ASSUME NEW d \in Slots PROVE PointsToItem(thrown[d])' /\ SaidIsKept(thrown[d])'
  <2>1. CASE d = e
    <3>1. thrown'[d] = y
      BY <2>1 DEF IInv, TypeOK
    <3>2. QED
      BY <3>1 DEF PointsToItem, SaidIsKept, IsDataError
  <2>2. CASE d # e
    <3>1. thrown'[d] = thrown[d]
      BY <2>2 DEF IInv, TypeOK
    <3>2. QED
      BY <1>1, <3>1, UntouchedSurvives
  <2>3. QED
    BY <2>1, <2>2
<1>3. QED
  BY <1>1, <1>2 DEF IInv

\* A step that logs or loads, and leaves the exceptions alone, keeps it.
LEMMA QuietStep ==
  ASSUME IInv, UNCHANGED thrown, TypeOK', RoomForItems',
         \A d \in Contexts : Len(items[d]) <= Len(items'[d])
  PROVE  IInv'
<1>1. ASSUME NEW e \in Slots PROVE PointsToItem(thrown[e])' /\ SaidIsKept(thrown[e])'
  BY UntouchedSurvives
<1>2. QED
  BY <1>1 DEF IInv

\* ly_err_last: a step that leaves libyang alone shortens no list.
LEMMA ItemsUnchanged ==
  ASSUME IInv, UNCHANGED items
  PROVE  /\ items' \in [Contexts -> Seq(Messages)]
         /\ \A d \in Contexts : Len(items[d]) <= Len(items'[d])
         /\ RoomForItems'
<1>1. \A d \in Contexts : Len(items[d]) \in Nat
  BY DEF IInv, TypeOK
<1>2. QED
  BY <1>1 DEF IInv, TypeOK, RoomForItems

\* The constructor keeps what ly_err_last has just returned (Exceptions.hpp:54-56).
LEMMA ThrowDataErrorStep ==
  ASSUME IInv, NEW e \in Slots, NEW c \in Contexts, ThrowDataError(e, c)
  PROVE  IInv'
<1>. DEFINE y == DataError(c, LastItem(items'[c]), logged + 1)
<1>1. /\ logged' \in Messages
      /\ logged + 1 \in Messages
      /\ items' \in [Contexts -> Seq(Messages)]
      /\ \A d \in Contexts : Len(items[d]) <= Len(items'[d])
      /\ RoomForItems'
  <2>1. CASE c \in NullContexts
    <3>1. logged' \in Messages /\ logged + 1 \in Messages
      BY <2>1, ErrorsAssumption DEF ThrowDataError, IInv, TypeOK, Messages
    <3>2. QED
      BY <2>1, <3>1, ItemsUnchanged DEF ThrowDataError
  <2>2. CASE c \notin NullContexts
    <3>1. Logs(c) /\ logged + 1 <= MaxMessages
      BY <2>2 DEF ThrowDataError
    <3>2. logged + 1 \in Messages
      BY <3>1, ErrorsAssumption DEF IInv, TypeOK, Messages
    <3>3. QED
      BY <3>1, <3>2, LogsGrow
  <2>3. QED
    BY <2>1, <2>2
<1>2. LastItem(items'[c]) \in Nat
  BY <1>1 DEF LastItem
<1>3. y \in Errors
  BY <1>1, <1>2, ThrownType DEF IInv
<1>4. y.ctx_ = c /\ y.error_ = Len(items'[c]) /\ y.said = None
  BY DEF DataError, LastItem
<1>5. y.error_ <= Len(items'[y.ctx_]) /\ SaidIsKept(y)
  BY <1>2, <1>4 DEF SaidIsKept, LastItem
<1>6. thrown' = [thrown EXCEPT ![e] = y] /\ UNCHANGED <<loaded, alive, buf>>
  BY DEF ThrowDataError
<1>. HIDE DEF y
<1>7. QED
  BY <1>1, <1>3, <1>5, <1>6, SlotStep

\* Without a failing call it keeps an older item, or none (Yang.cpp:47,
\* YangModel.hpp:45, IetfRouting.cpp:136).
LEMMA ThrowWithoutFailureStep ==
  ASSUME IInv, NEW e \in Slots, NEW c \in Contexts, ThrowWithoutFailure(e, c)
  PROVE  IInv'
<1>. DEFINE y == DataError(c, LastItem(items[c]), 0)
<1>1. logged' \in Messages /\ 0 \in Messages /\ UNCHANGED items
  BY ErrorsAssumption DEF ThrowWithoutFailure, IInv, TypeOK, Messages
<1>2. LastItem(items[c]) \in Nat
  BY DEF LastItem, IInv, TypeOK
<1>3. y \in Errors
  BY <1>1, <1>2, ThrownType DEF IInv
<1>4. y.ctx_ = c /\ y.error_ = Len(items[c]) /\ y.said = None
  BY DEF DataError, LastItem
<1>5. y.error_ <= Len(items'[y.ctx_]) /\ SaidIsKept(y)
  BY <1>1, <1>2, <1>4 DEF SaidIsKept, LastItem
<1>6. thrown' = [thrown EXCEPT ![e] = y] /\ UNCHANGED <<loaded, alive, buf>>
  BY DEF ThrowWithoutFailure
<1>. HIDE DEF y
<1>7. QED
  BY <1>1, <1>3, <1>5, <1>6, ItemsUnchanged, SlotStep

\* A YangError captures nothing (YangContext.cpp:13, Exceptions.hpp:16).
LEMMA ThrowYangErrorStep ==
  ASSUME IInv, NEW e \in Slots, NEW c \in Contexts, ThrowYangError(e, c)
  PROVE  IInv'
<1>. DEFINE y == [DataError(c, 0, logged') EXCEPT !.kind = "YangError"]
<1>1. logged' \in Messages /\ UNCHANGED items
  BY ErrorsAssumption DEF ThrowYangError, IInv, TypeOK, Messages
<1>2. DataError(c, 0, logged') \in Errors
  BY <1>1, ThrownType DEF IInv
<1>3. y \in Errors /\ y.kind = "YangError"
  BY <1>2 DEF Errors
<1>4. ~IsDataError(y)
  BY <1>3 DEF IsDataError
<1>5. thrown' = [thrown EXCEPT ![e] = y] /\ UNCHANGED <<loaded, alive, buf>>
  BY DEF ThrowYangError
<1>. HIDE DEF y
<1>6. QED
  BY <1>1, <1>3, <1>4, <1>5, ItemsUnchanged, SlotStep DEF SaidIsKept

\* what() builds its text once and returns what it keeps (Exceptions.hpp:60, 98-100).
LEMMA WhatDataStep ==
  ASSUME IInv, NEW e \in Slots, WhatData(e)
  PROVE  IInv'
<1>. DEFINE x == thrown[e]
            text == IF x.what_buf_ = None THEN DataText(x) ELSE x.what_buf_
            y == [x EXCEPT !.what_buf_ = text, !.said = text]
<1>1. x \in Errors /\ IsDataError(x) /\ PointsToItem(x)
  BY DEF WhatData, IInv, TypeOK, IsDataError
<1>2. text \in Texts \union {None}
  BY <1>1, DataTextType DEF Errors
<1>3. y \in Errors /\ y.ctx_ = x.ctx_ /\ y.error_ = x.error_ /\ y.said = y.what_buf_
  BY <1>1, <1>2 DEF Errors
<1>4. y.error_ <= Len(items[y.ctx_]) /\ SaidIsKept(y)
  BY <1>1, <1>3 DEF PointsToItem, SaidIsKept
<1>5. /\ thrown' = [thrown EXCEPT ![e] = y]
      /\ UNCHANGED <<logged, items, loaded, alive, buf>>
  <2>1. thrown' = [thrown EXCEPT ![e].what_buf_ = text, ![e].said = text]
    BY DEF WhatData
  <2>2. [thrown EXCEPT ![e].what_buf_ = text, ![e].said = text]
          = [thrown EXCEPT ![e] = y]
    BY DEF IInv, TypeOK
  <2>3. QED
    BY <2>1, <2>2 DEF WhatData
<1>6. logged' \in Messages
  BY <1>5 DEF IInv, TypeOK
<1>. HIDE DEF y
<1>7. QED
  BY <1>3, <1>4, <1>5, <1>6, ItemsUnchanged, SlotStep

\* Nothing has been logged or thrown when the program starts.
LEMMA InitIInv == Init => IInv
<1>. SUFFICES ASSUME Init PROVE IInv
  OBVIOUS
<1>1. TypeOK
  BY ErrorsAssumption DEF Init, TypeOK, Messages
<1>2. \A e \in Slots : ~IsDataError(thrown[e])
  BY DEF Init, IsDataError
<1>3. QED
  BY <1>1, <1>2 DEF Init, IInv, RoomForItems, PointsToItem, SaidIsKept

LEMMA StepIInv ==
  ASSUME IInv, [Next]_vars
  PROVE  IInv'
<1>1. ASSUME NEW e \in Slots, NEW c \in Contexts,
             ThrowDataError(e, c) \/ ThrowWithoutFailure(e, c) \/ ThrowYangError(e, c)
      PROVE  IInv'
  BY <1>1, ThrowDataErrorStep, ThrowWithoutFailureStep, ThrowYangErrorStep
<1>2. ASSUME NEW e \in Slots, WhatData(e) PROVE IInv'
  BY <1>2, WhatDataStep
<1>3. ASSUME NEW e \in Slots, WhatYangError(e) PROVE IInv'
  <2>1. TypeOK' /\ UNCHANGED <<thrown, items>>
    BY <1>3 DEF WhatYangError, ly_last_logmsg, IInv, TypeOK
  <2>2. QED
    BY <2>1, ItemsUnchanged, QuietStep
<1>4. ASSUME NEW e \in Slots, EndHandler(e) PROVE IInv'
  <2>1. thrown[e] # None /\ logged' \in Messages
    BY <1>4 DEF EndHandler, IInv, TypeOK
  <2>2. thrown' = [thrown EXCEPT ![e] = None]
        /\ UNCHANGED <<items, loaded, alive, buf>>
    BY <1>4 DEF EndHandler
  <2>3. ~IsDataError(None)
    BY DEF IsDataError
  <2>4. None \in Errors \union {None} /\ SaidIsKept(None)
    BY <2>3 DEF SaidIsKept
  <2>5. QED
    BY <2>1, <2>2, <2>3, <2>4, ItemsUnchanged, SlotStep
<1>5. ASSUME NEW c \in Contexts, LogOnly(c) PROVE IInv'
  <2>1. Logs(c) /\ logged + 1 <= MaxMessages /\ UNCHANGED <<loaded, alive, thrown, buf>>
    BY <1>5 DEF LogOnly
  <2>2. TypeOK'
    BY <2>1, LogsGrow DEF IInv, TypeOK
  <2>3. QED
    BY <2>1, <2>2, LogsGrow, QuietStep
<1>6. ASSUME NEW c \in Contexts, LoadModule(c) PROVE IInv'
  <2>1. TypeOK' /\ UNCHANGED <<thrown, items>>
    BY <1>6, ErrorsAssumption DEF LoadModule, IInv, TypeOK
  <2>2. QED
    BY <2>1, ItemsUnchanged, QuietStep
<1>7. ASSUME NEW c \in Contexts, DestroyContext(c) PROVE IInv'
  <2>1. TypeOK' /\ UNCHANGED <<thrown, items>>
    BY <1>7 DEF DestroyContext, IInv, TypeOK
  <2>2. QED
    BY <2>1, ItemsUnchanged, QuietStep
<1>8. CASE UNCHANGED vars
  <2>1. TypeOK' /\ UNCHANGED <<thrown, items>>
    BY <1>8 DEF vars, IInv, TypeOK
  <2>2. QED
    BY <2>1, ItemsUnchanged, QuietStep
<1>9. QED
  BY <1>1, <1>2, <1>3, <1>4, <1>5, <1>6, <1>7, <1>8 DEF Next

\* Type correctness: what() never reads beyond an error list and never names a
\* module the context does not have, with any number of exceptions in flight and
\* either way of storing errors (Exceptions.hpp:46-110).
THEOREM TypeCorrect == Spec => []TypeOK
<1>1. Spec => []IInv
  BY InitIInv, StepIInv, PTL DEF Spec
<1>2. IInv => TypeOK
  BY DEF IInv
<1>3. QED
  BY <1>1, <1>2, PTL

\* A YangDataError that has spoken says the same again: nothing that is logged,
\* loaded or destroyed in between reaches its text (Exceptions.hpp:60, 98).
LEMMA SpokenKeeps ==
  ASSUME IInv, [Next]_vars, NEW e \in Slots,
         IsDataError(thrown[e]), thrown[e].said # None
  PROVE  thrown'[e] = None \/ thrown'[e].said = thrown[e].said
<1>. DEFINE x == thrown[e]
<1>1. x # None /\ x.kind = "YangDataError" /\ x \in Errors /\ x.what_buf_ = x.said
  BY DEF IInv, TypeOK, SaidIsKept, IsDataError
<1>2. thrown \in [Slots -> Errors \union {None}]
  BY DEF IInv, TypeOK
<1>3. ASSUME NEW d \in Slots, NEW c \in Contexts,
             ThrowDataError(d, c) \/ ThrowWithoutFailure(d, c) \/ ThrowYangError(d, c)
      PROVE  thrown'[e] = x
  <2>1. d # e
    BY <1>1, <1>3 DEF ThrowDataError, ThrowWithoutFailure, ThrowYangError
  <2>2. PICK y : thrown' = [thrown EXCEPT ![d] = y]
    BY <1>3 DEF ThrowDataError, ThrowWithoutFailure, ThrowYangError
  <2>3. QED
    BY <1>2, <2>1, <2>2
<1>4. ASSUME NEW d \in Slots, WhatData(d)
      PROVE  thrown'[e].said = x.said
  <2>1. CASE d = e
    <3>1. thrown' = [thrown EXCEPT ![e].what_buf_ = x.what_buf_,
                                   ![e].said = x.what_buf_]
      BY <1>1, <1>4, <2>1 DEF WhatData
    <3>2. thrown'[e] = [x EXCEPT !.what_buf_ = x.what_buf_, !.said = x.what_buf_]
      BY <1>2, <3>1
    <3>3. QED
      BY <1>1, <3>2 DEF Errors
  <2>2. CASE d # e
    BY <1>2, <1>4, <2>2 DEF WhatData
  <2>3. QED
    BY <2>1, <2>2
<1>5. ASSUME NEW d \in Slots, EndHandler(d)
      PROVE  thrown'[e] = None \/ thrown'[e] = x
  BY <1>2, <1>5 DEF EndHandler
<1>6. ASSUME NEW d \in Slots, WhatYangError(d) PROVE thrown' = thrown
  BY <1>6 DEF WhatYangError
<1>7. ASSUME NEW c \in Contexts, LogOnly(c) \/ LoadModule(c) \/ DestroyContext(c)
      PROVE  thrown' = thrown
  BY <1>7 DEF LogOnly, LoadModule, DestroyContext
<1>8. UNCHANGED vars => thrown' = thrown
  BY DEF vars
<1>9. QED
  BY <1>3, <1>4, <1>5, <1>6, <1>7, <1>8 DEF Next

\* The text of a YangDataError is fixed by its first what(), whatever the
\* program does until the handler ends (Exceptions.hpp:58-101).
THEOREM TextFixed == Spec => TextIsFixed
<1>1. Spec => []IInv
  BY InitIInv, StepIInv, PTL DEF Spec
<1>2. IInv /\ [Next]_vars =>
        [\A e \in Slots :
           IsDataError(thrown[e]) /\ thrown[e].said # None =>
             thrown'[e] = None \/ thrown'[e].said = thrown[e].said]_vars
  BY SpokenKeeps
<1>3. QED
  BY <1>1, <1>2, PTL DEF Spec, TextIsFixed

-----------------------------------------------------------------------------
(* Part 2: LY_LOSTORE *)

Storing == LogStore = "LY_LOSTORE"

\* No list has an item that has not been logged yet.
ItemsArePast ==
  \A c \in Contexts : \A k \in 1..Len(items[c]) : items[c][k] <= logged

\* What was captured is not later than the throw, is the cause if there was one,
\* and is what a text that was put together while the context existed says.
CapturedIsKept(x) ==
  IsDataError(x) =>
    LET item == items[x.ctx_][x.error_] IN
    /\ x.error_ # 0 => item <= x.at
    /\ x.cause # 0 /\ x.ctx_ \notin NullContexts => x.error_ # 0 /\ item = x.cause
    /\ x.error_ # 0 /\ x.what_buf_ # None => x.what_buf_.msg \in {item, Freed}

CaptureInv ==
  /\ ItemsArePast
  /\ \A e \in Slots : CapturedIsKept(thrown[e])

\* What is in the lists stays where it is.
ItemsStay ==
  \A c \in Contexts : \A k \in 1..Len(items[c]) :
    k \in 1..Len(items'[c]) /\ items'[c][k] = items[c][k]

\* Messages are numbers, so that items of a list can be compared.
LEMMA NumberedItems ==
  ASSUME IInv
  PROVE  items \in [Contexts -> Seq(Nat)] /\ logged \in Nat
<1>1. Messages \subseteq Nat
  BY ErrorsAssumption DEF Messages
<1>2. ASSUME NEW s \in Seq(Messages) PROVE s \in Seq(Nat)
  <2>1. Len(s) \in Nat /\ s \in [1..Len(s) -> Messages]
    OBVIOUS
  <2>2. s \in [1..Len(s) -> Nat]
    BY <1>1, <2>1
  <2>3. QED
    BY <2>1, <2>2
<1>3. QED
  BY <1>1, <1>2 DEF IInv, TypeOK

\* A log call appends: it moves no item that an exception points to.
LEMMA LogsKeepItems ==
  ASSUME Storing, IInv, ItemsArePast, NEW c \in Contexts, Logs(c),
         logged + 1 <= MaxMessages
  PROVE  /\ ItemsStay
         /\ ItemsArePast'
         /\ c \notin NullContexts =>
              Len(items'[c]) = Len(items[c]) + 1 /\ items'[c][Len(items'[c])] = logged + 1
<1>1. logged \in Nat /\ logged' = logged + 1
  BY NumberedItems DEF Logs
<1>2. /\ items' = [items EXCEPT ![c] = Store(c, logged')]
      /\ items \in [Contexts -> Seq(Nat)]
  BY NumberedItems DEF Logs
<1>3. CASE c \in NullContexts
  <2>1. items' = items
    BY <1>2, <1>3 DEF Store
  <2>2. QED
    BY <1>1, <1>2, <1>3, <2>1 DEF ItemsStay, ItemsArePast
<1>4. CASE c \notin NullContexts
  <2>1. items' = [items EXCEPT ![c] = Append(@, logged + 1)]
    BY <1>1, <1>2, <1>4 DEF Store, Storing
  <2>2. items'[c] = Append(items[c], logged + 1)
    BY <1>2, <2>1
  <2>3. \A d \in Contexts : d # c => items'[d] = items[d]
    BY <1>2, <2>1
  <2>4. ASSUME NEW d \in Contexts, NEW k \in 1..Len(items[d])
        PROVE  k \in 1..Len(items'[d]) /\ items'[d][k] = items[d][k]
    BY <1>1, <1>2, <2>2, <2>3
  <2>5. ASSUME NEW d \in Contexts, NEW k \in 1..Len(items'[d])
        PROVE  items'[d][k] <= logged'
    <3>1. CASE d = c
      BY <1>1, <1>2, <2>2, <3>1 DEF ItemsArePast
    <3>2. CASE d # c
      <4>1. items[d][k] \in Nat /\ items[d][k] <= logged /\ items'[d] = items[d]
        BY <1>2, <2>3, <3>2 DEF ItemsArePast
      <4>2. QED
        BY <1>1, <4>1
    <3>3. QED
      BY <3>1, <3>2
  <2>6. QED
    BY <1>1, <1>2, <2>2, <2>4, <2>5 DEF ItemsStay, ItemsArePast
<1>5. QED
  BY <1>3, <1>4

LEMMA ItemsUnchangedStay ==
  ASSUME IInv, ItemsArePast, UNCHANGED items, logged' \in Nat, logged <= logged'
  PROVE  ItemsStay /\ ItemsArePast'
<1>1. items \in [Contexts -> Seq(Nat)] /\ logged \in Nat
  BY NumberedItems
<1>2. \A c \in Contexts : \A k \in 1..Len(items[c]) : items[c][k] \in Nat
  BY <1>1
<1>3. QED
  BY <1>1, <1>2 DEF ItemsStay, ItemsArePast

\* What an exception has captured survives every step that leaves it alone.
LEMMA CaptureSurvives ==
  ASSUME IInv, NEW x \in Errors \union {None}, PointsToItem(x), CapturedIsKept(x), ItemsStay
  PROVE  IsDataError(x) =>
           LET item == items'[x.ctx_][x.error_] IN
           /\ x.error_ # 0 => item <= x.at
           /\ x.cause # 0 /\ x.ctx_ \notin NullContexts => x.error_ # 0 /\ item = x.cause
           /\ x.error_ # 0 /\ x.what_buf_ # None => x.what_buf_.msg \in {item, Freed}
<1>1. SUFFICES ASSUME IsDataError(x), x.error_ # 0
               PROVE  items'[x.ctx_][x.error_] = items[x.ctx_][x.error_]
  BY DEF CapturedIsKept
<1>2. x.ctx_ \in Contexts /\ x.error_ \in Nat
  BY <1>1 DEF IsDataError, Errors
<1>3. Len(items[x.ctx_]) \in Nat
  BY <1>2 DEF IInv, TypeOK
<1>4. x.error_ \in 1..Len(items[x.ctx_])
  BY <1>1, <1>2, <1>3 DEF PointsToItem
<1>5. QED
  BY <1>2, <1>4 DEF ItemsStay

\* As SlotStep, for what is captured.
LEMMA CaptureSlotStep ==
  ASSUME IInv, CaptureInv, ItemsStay, ItemsArePast',
         NEW e \in Slots, NEW y,
         thrown' = [thrown EXCEPT ![e] = y],
         IsDataError(y) =>
           LET item == items'[y.ctx_][y.error_] IN
           /\ y.error_ # 0 => item <= y.at
           /\ y.cause # 0 /\ y.ctx_ \notin NullContexts => y.error_ # 0 /\ item = y.cause
           /\ y.error_ # 0 /\ y.what_buf_ # None => y.what_buf_.msg \in {item, Freed}
  PROVE  CaptureInv'
<1>1. thrown \in [Slots -> Errors \union {None}]
  BY DEF IInv, TypeOK
<1>2. ASSUME NEW d \in Slots PROVE CapturedIsKept(thrown[d])'
  <2>1. CASE d = e
    <3>1. thrown'[d] = y
      BY <1>1, <2>1
    <3>2. QED
      BY <3>1 DEF CapturedIsKept, IsDataError
  <2>2. CASE d # e
    <3>1. thrown'[d] = thrown[d] /\ thrown[d] \in Errors \union {None}
      BY <1>1, <2>2
    <3>2. PointsToItem(thrown[d]) /\ CapturedIsKept(thrown[d])
      BY DEF IInv, CaptureInv
    <3>3. QED
      BY <3>1, <3>2, CaptureSurvives DEF CapturedIsKept, IsDataError
  <2>3. QED
    BY <2>1, <2>2
<1>3. QED
  BY <1>2 DEF CaptureInv

LEMMA CaptureQuietStep ==
  ASSUME IInv, CaptureInv, ItemsStay, ItemsArePast', UNCHANGED thrown
  PROVE  CaptureInv'
<1>1. ASSUME NEW d \in Slots PROVE CapturedIsKept(thrown[d])'
  <2>1. thrown[d] \in Errors \union {None} /\ PointsToItem(thrown[d]) /\ CapturedIsKept(thrown[d])
    BY DEF IInv, TypeOK, CaptureInv
  <2>2. QED
    BY <2>1, CaptureSurvives DEF CapturedIsKept, IsDataError
<1>2. QED
  BY <1>1 DEF CaptureInv

\* The item that ly_err_last returns right after the failing call is that
\* call's (Exceptions.hpp:46-56).
LEMMA ThrowDataErrorCaptures ==
  ASSUME Storing, IInv, CaptureInv, NEW e \in Slots, NEW c \in Contexts,
         ThrowDataError(e, c)
  PROVE  CaptureInv'
<1>. DEFINE y == DataError(c, LastItem(items'[c]), logged + 1)
<1>1. /\ ItemsStay /\ ItemsArePast' /\ logged' \in Nat
      /\ items' \in [Contexts -> Seq(Messages)]
      /\ c \notin NullContexts =>
           Len(items'[c]) # 0 /\ items'[c][Len(items'[c])] = logged + 1
  <2>1. CASE c \in NullContexts
    <3>1. UNCHANGED items /\ logged' \in Nat /\ logged <= logged'
      BY <2>1, NumberedItems DEF ThrowDataError
    <3>2. QED
      BY <2>1, <3>1, ItemsUnchanged, ItemsUnchangedStay DEF CaptureInv
  <2>2. CASE c \notin NullContexts
    <3>1. Logs(c) /\ logged + 1 <= MaxMessages
      BY <2>2 DEF ThrowDataError
    <3>2. logged' \in Nat /\ Len(items[c]) \in Nat
      BY <3>1, NumberedItems DEF Logs
    <3>3. QED
      BY <2>2, <3>1, <3>2, LogsGrow, LogsKeepItems DEF CaptureInv
  <2>3. QED
    BY <2>1, <2>2
<1>2. /\ y.ctx_ = c /\ y.error_ = Len(items'[c]) /\ y.cause = logged + 1
      /\ y.at = logged' /\ y.what_buf_ = None
  BY DEF DataError, LastItem
<1>3. Len(items'[c]) \in Nat
  BY <1>1
<1>4. y.error_ # 0 => items'[c][y.error_] <= y.at
  BY <1>1, <1>2, <1>3 DEF ItemsArePast
<1>5. thrown' = [thrown EXCEPT ![e] = y]
  BY DEF ThrowDataError
<1>. HIDE DEF y
<1>6. QED
  BY <1>1, <1>2, <1>4, <1>5, CaptureSlotStep

\* An item captured without a failing call is older than the throw (Yang.cpp:47).
LEMMA ThrowWithoutFailureCaptures ==
  ASSUME Storing, IInv, CaptureInv, NEW e \in Slots, NEW c \in Contexts,
         ThrowWithoutFailure(e, c)
  PROVE  CaptureInv'
<1>. DEFINE y == DataError(c, LastItem(items[c]), 0)
<1>1. UNCHANGED items /\ logged' = logged /\ logged \in Nat
  BY NumberedItems DEF ThrowWithoutFailure
<1>2. ItemsStay /\ ItemsArePast'
  BY <1>1, ItemsUnchangedStay DEF CaptureInv
<1>3. /\ y.ctx_ = c /\ y.error_ = Len(items[c]) /\ y.cause = 0
      /\ y.at = logged' /\ y.what_buf_ = None
  BY DEF DataError, LastItem
<1>4. Len(items[c]) \in Nat
  BY DEF IInv, TypeOK
<1>5. y.error_ # 0 => items'[c][y.error_] <= y.at
  BY <1>1, <1>3, <1>4 DEF CaptureInv, ItemsArePast
<1>6. thrown' = [thrown EXCEPT ![e] = y]
  BY DEF ThrowWithoutFailure
<1>. HIDE DEF y
<1>7. QED
  BY <1>2, <1>3, <1>5, <1>6, CaptureSlotStep

\* The text is put together from the captured item, or from freed memory
\* (Exceptions.hpp:60-64, 106-110).
LEMMA WhatDataCaptures ==
  ASSUME Storing, IInv, CaptureInv, NEW e \in Slots, WhatData(e)
  PROVE  CaptureInv'
<1>. DEFINE x == thrown[e]
            text == IF x.what_buf_ = None THEN DataText(x) ELSE x.what_buf_
            y == [x EXCEPT !.what_buf_ = text, !.said = text]
            item == items[x.ctx_][x.error_]
<1>1. x \in Errors /\ IsDataError(x) /\ CapturedIsKept(x)
  BY DEF WhatData, IInv, TypeOK, CaptureInv, IsDataError
<1>2. UNCHANGED items /\ logged' = logged /\ logged \in Nat
  BY NumberedItems DEF WhatData
<1>3. ItemsStay /\ ItemsArePast'
  BY <1>2, ItemsUnchangedStay DEF CaptureInv
<1>4. x.error_ # 0 /\ text # None => text.msg \in {item, Freed}
  <2>1. x.error_ # 0 => MessageCaptured(x) \in {item, Freed}
    <3>1. CASE x.error_ # 0 /\ Live(x)
      BY <3>1 DEF MessageCaptured, MessageOf
    <3>2. CASE x.error_ # 0 /\ ~Live(x)
      BY <3>2 DEF MessageCaptured, MessageOf
    <3>3. QED
      BY <3>1, <3>2
  <2>2. DataText(x).msg = MessageCaptured(x)
    BY DEF DataText
  <2>3. QED
    BY <1>1, <2>1, <2>2 DEF CapturedIsKept
<1>5. /\ y.kind = x.kind /\ y.ctx_ = x.ctx_ /\ y.error_ = x.error_
      /\ y.cause = x.cause /\ y.at = x.at /\ y.what_buf_ = text
  BY <1>1 DEF Errors
<1>6. thrown' = [thrown EXCEPT ![e] = y]
  <2>1. thrown' = [thrown EXCEPT ![e].what_buf_ = text, ![e].said = text]
    BY DEF WhatData
  <2>2. [thrown EXCEPT ![e].what_buf_ = text, ![e].said = text]
          = [thrown EXCEPT ![e] = y]
    BY DEF IInv, TypeOK
  <2>3. QED
    BY <2>1, <2>2
<1>7. /\ y.error_ # 0 => item <= y.at
      /\ y.cause # 0 /\ y.ctx_ \notin NullContexts => y.error_ # 0 /\ item = y.cause
      /\ y.error_ # 0 /\ y.what_buf_ # None => y.what_buf_.msg \in {item, Freed}
  BY <1>1, <1>4, <1>5 DEF CapturedIsKept
<1>8. items'[y.ctx_][y.error_] = item
  BY <1>2, <1>5
<1>. HIDE DEF y, item
<1>9. QED
  BY <1>3, <1>6, <1>7, <1>8, CaptureSlotStep

LEMMA InitCapture == Init => CaptureInv
<1>. SUFFICES ASSUME Init PROVE CaptureInv
  OBVIOUS
<1>1. ItemsArePast
  BY DEF Init, ItemsArePast
<1>2. \A e \in Slots : ~IsDataError(thrown[e])
  BY DEF Init, IsDataError
<1>3. QED
  BY <1>1, <1>2 DEF CaptureInv, CapturedIsKept

LEMMA StepCapture ==
  ASSUME Storing, IInv, CaptureInv, [Next]_vars
  PROVE  CaptureInv'
<1>. USE NumberedItems
<1>1. ASSUME NEW e \in Slots, NEW c \in Contexts,
             ThrowDataError(e, c) \/ ThrowWithoutFailure(e, c)
      PROVE  CaptureInv'
  BY <1>1, ThrowDataErrorCaptures, ThrowWithoutFailureCaptures
<1>2. ASSUME NEW e \in Slots, NEW c \in Contexts, ThrowYangError(e, c)
      PROVE  CaptureInv'
  <2>. DEFINE y == [DataError(c, 0, logged') EXCEPT !.kind = "YangError"]
  <2>1. ~IsDataError(y)
    BY DEF IsDataError, DataError
  <2>2. UNCHANGED items /\ logged' \in Nat /\ logged <= logged'
    BY <1>2 DEF ThrowYangError
  <2>3. ItemsStay /\ ItemsArePast'
    BY <2>2, ItemsUnchangedStay DEF CaptureInv
  <2>4. thrown' = [thrown EXCEPT ![e] = y]
    BY <1>2 DEF ThrowYangError
  <2>. HIDE DEF y
  <2>5. QED
    BY <2>1, <2>3, <2>4, CaptureSlotStep
<1>3. ASSUME NEW e \in Slots, WhatData(e) PROVE CaptureInv'
  BY <1>3, WhatDataCaptures
<1>4. ASSUME NEW e \in Slots, EndHandler(e) PROVE CaptureInv'
  <2>1. ~IsDataError(None)
    BY DEF IsDataError
  <2>2. ItemsStay /\ ItemsArePast'
    BY <1>4, ItemsUnchangedStay DEF EndHandler, CaptureInv
  <2>3. thrown' = [thrown EXCEPT ![e] = None]
    BY <1>4 DEF EndHandler
  <2>4. QED
    BY <2>1, <2>2, <2>3, CaptureSlotStep
<1>5. ASSUME NEW c \in Contexts, LogOnly(c) PROVE CaptureInv'
  <2>1. Logs(c) /\ logged + 1 <= MaxMessages /\ UNCHANGED thrown
    BY <1>5 DEF LogOnly
  <2>2. QED
    BY <2>1, LogsKeepItems, CaptureQuietStep DEF CaptureInv
<1>6. ASSUME UNCHANGED <<logged, items, thrown>> PROVE CaptureInv'
  BY <1>6, ItemsUnchangedStay, CaptureQuietStep DEF CaptureInv
<1>7. ASSUME NEW e \in Slots, WhatYangError(e) PROVE CaptureInv'
  BY <1>6, <1>7 DEF WhatYangError
<1>8. ASSUME NEW c \in Contexts, LoadModule(c) \/ DestroyContext(c) PROVE CaptureInv'
  BY <1>6, <1>8 DEF LoadModule, DestroyContext
<1>9. CASE UNCHANGED vars
  BY <1>6, <1>9 DEF vars
<1>10. QED
  BY <1>1, <1>2, <1>3, <1>4, <1>5, <1>7, <1>8, <1>9 DEF Next

LEMMA CaptureInvariant == ASSUME Storing PROVE Spec => [](IInv /\ CaptureInv)
<1>1. Init => IInv /\ CaptureInv
  BY InitIInv, InitCapture
<1>2. IInv /\ CaptureInv /\ [Next]_vars => (IInv /\ CaptureInv)'
  BY StepIInv, StepCapture
<1>3. QED
  BY <1>1, <1>2, PTL DEF Spec

\* With LY_LOSTORE every YangDataError of a failed call points to the item of
\* that failure and says so as long as its context exists, for any number of
\* contexts, messages and exceptions in flight (Exceptions.hpp:54-63, 106-110).
THEOREM CausesKept == ASSUME Storing PROVE Spec => []CapturedIsCause
<1>1. ASSUME IInv, CaptureInv, NEW e \in Slots,
             IsDataError(thrown[e]), thrown[e].cause # 0,
             thrown[e].ctx_ \notin NullContexts
      PROVE  /\ thrown[e].error_ # 0
             /\ items[thrown[e].ctx_][thrown[e].error_] = thrown[e].cause
             /\ thrown[e].said # None =>
                  thrown[e].said.msg \in {thrown[e].cause, Freed}
  BY <1>1 DEF IInv, CaptureInv, CapturedIsKept, SaidIsKept
<1>2. IInv /\ CaptureInv => CapturedIsCause
  BY <1>1 DEF CapturedIsCause
<1>3. QED
  BY <1>2, CaptureInvariant, PTL

\* A YangDataError that captured an item, of whichever failure, never trades it
\* for what happened after the throw (Exceptions.hpp:46-49, 106-108).
THEOREM CapturedNotLater == ASSUME Storing PROVE Spec => []CapturedIsNotLater
<1>1. ASSUME IInv, CaptureInv, NEW e \in Slots, IsDataError(thrown[e]),
             thrown[e].error_ # 0, thrown[e].said # None
      PROVE  thrown[e].said.msg = Freed \/ thrown[e].said.msg <= thrown[e].at
  BY <1>1 DEF IInv, CaptureInv, CapturedIsKept, SaidIsKept
<1>2. IInv /\ CaptureInv => CapturedIsNotLater
  BY <1>1 DEF CapturedIsNotLater
<1>3. QED
  BY <1>2, CaptureInvariant, PTL

=============================================================================
