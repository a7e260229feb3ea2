----------------------------- MODULE YangErrors -----------------------------
(***************************************************************************)
(* The exceptions of Exceptions.hpp and the libyang state they read when   *)
(* what() is called: the error items of each context (ly_err_last), the    *)
(* thread's last message (ly_last_logmsg) and the loaded modules.  A       *)
(* message is the number of the log call that produced it; 0 is the empty  *)
(* message.  One thread; ly_err_item lists are per thread in libyang.      *)
(***************************************************************************)
EXTENDS Naturals, Sequences, Functions

CONSTANTS
  Contexts,     \* the YangContext objects
  NullContexts, \* those constructed from a null ly_ctx, where raw() is null
  Slots,        \* places for exceptions in flight
  LogStore,     \* ly_log_options: "LY_LOSTORE" or "LY_LOSTORE_LAST"
  None,         \* no exception; no text
  Freed,        \* what reading a destroyed context's memory gives
  MaxMessages,  \* bound on log calls
  MaxModules    \* bound on the modules of a context

ASSUME ErrorsAssumption ==
  /\ NullContexts \subseteq Contexts
  /\ LogStore \in {"LY_LOSTORE", "LY_LOSTORE_LAST"}
  /\ MaxMessages \in Nat
  /\ MaxModules \in Nat
  /\ Freed \notin Nat

VARIABLES
  logged,  \* log calls so far: the number of ly_last_logmsg's message
  items,   \* items[c]: the error items of context c, oldest first
  loaded,  \* loaded[c]: how many modules context c has
  alive,   \* the contexts not destroyed yet
  thrown,  \* thrown[e]: the exception in slot e, or None
  buf      \* the message in YangError::what's static buffer

vars == <<logged, items, loaded, alive, thrown, buf>>

Messages == 0..MaxMessages

\* What what() put together: the message, the loaded modules it names (by their
\* position in the context), and, for the properties, how many there were.
Texts == [msg : Messages \union {Freed}, listed : SUBSET (1..MaxModules),
          of : 0..MaxModules]

Errors ==
  [kind : {"YangError", "YangDataError"},
   ctx_ : Contexts,         \* meaningless in a YangError
   error_ : Nat,            \* the item error_ points to, 0 for nullptr
   cause : Messages,        \* the message of the failure, 0 if nothing failed
   at : Messages,           \* the last message when it was thrown
   what_buf_ : Texts \union {None},
   said : Texts \union {None}] \* what YangDataError::what last returned

TypeOK ==
  /\ logged \in Messages
  /\ items \in [Contexts -> Seq(Messages)]
  /\ loaded \in [Contexts -> 0..MaxModules]
  /\ alive \in SUBSET Contexts
  /\ thrown \in [Slots -> Errors \union {None}]
  /\ buf \in Messages

Init ==
  /\ logged = 0
  /\ items = [c \in Contexts |-> <<>>]
  /\ loaded = [c \in Contexts |-> 0]
  /\ alive = Contexts
  /\ thrown = [e \in Slots |-> None]
  /\ buf = 0

-----------------------------------------------------------------------------
(* libyang *)

\* The items of a context after it logs message n.  With LY_LOSTORE_LAST the
\* only item is overwritten where it is.  A null context stores nothing.
Store(c, n) ==
  CASE c \in NullContexts              -> items[c]
    [] c \notin NullContexts
         /\ LogStore = "LY_LOSTORE"    -> Append(items[c], n)
    [] OTHER                           -> <<n>>

\* ly_err_last: a pointer to the newest item
LastItem(s) == Len(s)

Logs(c) == logged' = logged + 1 /\ items' = [items EXCEPT ![c] = Store(c, logged')]

ly_last_logmsg == logged

\* Mutant: the loop starts before the first module.
ListedFromZero(c) == {i \in 0..loaded[c] : i % 2 = 0}

\* ly_ctx_get_module_iter returns the module at idx and increments idx.
\* what()'s loop increments it once more after each module.
Listed(c) == {i \in 1..loaded[c] : i % 2 = 1}

-----------------------------------------------------------------------------
(* throwing *)

DataError(c, item, why) ==
  [kind |-> "YangDataError", ctx_ |-> c, error_ |-> item, cause |-> why,
   at |-> logged', what_buf_ |-> None, said |-> None]

\* Mutant: the last item is captured before the call that fails.
CaptureTooEarly(e, c) ==
  /\ thrown[e] = None
  /\ c \in alive \ NullContexts
  /\ logged + 1 <= MaxMessages
  /\ Logs(c)
  /\ thrown' = [thrown EXCEPT ![e] = DataError(c, LastItem(items[c]), logged + 1)]
  /\ UNCHANGED <<loaded, alive, buf>>

\* A libyang call on c fails and the wrapper throws YangDataError(*this): the
\* constructor keeps the pointer ly_err_last returns.  For a null context
\* ly_err_last itself fails, logs and returns null.
ThrowDataError(e, c) ==
  /\ thrown[e] = None
  /\ c \in alive
  /\ IF c \in NullContexts
       THEN logged + 2 <= MaxMessages /\ logged' = logged + 2 /\ UNCHANGED items
       ELSE logged + 1 <= MaxMessages /\ Logs(c)
  /\ thrown' = [thrown EXCEPT ![e] = DataError(c, LastItem(items'[c]), logged + 1)]
  /\ UNCHANGED <<loaded, alive, buf>>

\* getDefaultContext throws it for added == 0, when no libyang call failed;
\* deserialize does for a tree it does not accept.
ThrowWithoutFailure(e, c) ==
  /\ thrown[e] = None
  /\ c \in alive \ NullContexts
  /\ UNCHANGED <<logged, items, loaded, alive, buf>>
  /\ thrown' = [thrown EXCEPT ![e] = DataError(c, LastItem(items[c]), 0)]

\* ly_ctx_new fails: there is no context, and YangError captures nothing.
ThrowYangError(e, c) ==
  /\ thrown[e] = None
  /\ logged + 1 <= MaxMessages
  /\ logged' = logged + 1
  /\ thrown' = [thrown EXCEPT ![e] =
                  [DataError(c, 0, logged') EXCEPT !.kind = "YangError"]]
  /\ UNCHANGED <<items, loaded, alive, buf>>

-----------------------------------------------------------------------------
(* what() *)

Live(x) == x.ctx_ \in alive

\* getError() of YangDataError for the item it is given.  If the context is
\* gone, error_ points to freed memory.
MessageOf(x, item) ==
  CASE x.error_ = 0              -> ly_last_logmsg
    [] x.error_ # 0 /\ Live(x)   -> items[x.ctx_][item]
    [] OTHER                     -> Freed

\* Mutant: what() asks ly_err_last again.
MessageAskedAgain(x) == MessageOf(x, LastItem(items[x.ctx_]))

MessageCaptured(x) == MessageOf(x, x.error_)

\* The message and the module list; raw() of a destroyed context no longer
\* names modules.
DataText(x) ==
  LET lists == Live(x) /\ x.ctx_ \notin NullContexts IN
  [msg |-> MessageCaptured(x),
   listed |-> IF lists THEN Listed(x.ctx_) ELSE {},
   of |-> IF lists THEN loaded[x.ctx_] ELSE 0]

\* Mutant: the text is built anew for every call.
WhatRebuilt(e) ==
  /\ thrown[e] # None
  /\ thrown[e].kind = "YangDataError"
  /\ thrown' = [thrown EXCEPT ![e].said = DataText(thrown[e])]
  /\ UNCHANGED <<logged, items, loaded, alive, buf>>

\* YangDataError builds the text if (what_buf_.empty()) and keeps it.
WhatData(e) ==
  /\ thrown[e] # None
  /\ thrown[e].kind = "YangDataError"
  /\ LET x == thrown[e]
         text == IF x.what_buf_ = None THEN DataText(x) ELSE x.what_buf_
     IN thrown' = [thrown EXCEPT ![e].what_buf_ = text, ![e].said = text]
  /\ UNCHANGED <<logged, items, loaded, alive, buf>>

\* YangError moves the thread's last message into the buffer that all YangErrors
\* share and returns a pointer to it; the text another what() returned is gone.
WhatYangError(e) ==
  /\ thrown[e] # None
  /\ thrown[e].kind = "YangError"
  /\ buf' = ly_last_logmsg
  /\ UNCHANGED <<logged, items, loaded, alive, thrown>>

\* The handler is over and the exception is destroyed.
EndHandler(e) ==
  /\ thrown[e] # None
  /\ thrown' = [thrown EXCEPT ![e] = None]
  /\ UNCHANGED <<logged, items, loaded, alive, buf>>

-----------------------------------------------------------------------------
(* what else the program does with the contexts *)

\* libyang logs on c and nothing is thrown: a warning, or a call whose result
\* is ignored (addSearchPath, most lyd_new_path calls of serialize).
LogOnly(c) ==
  /\ c \in alive \ NullContexts
  /\ logged + 1 <= MaxMessages
  /\ Logs(c)
  /\ UNCHANGED <<loaded, alive, thrown, buf>>

LoadModule(c) ==
  /\ c \in alive \ NullContexts
  /\ loaded[c] < MaxModules
  /\ loaded' = [loaded EXCEPT ![c] = @ + 1]
  /\ UNCHANGED <<logged, items, alive, thrown, buf>>

\* ~YangContext, for instance while the stack is unwound to the handler
DestroyContext(c) ==
  /\ c \in alive
  /\ alive' = alive \ {c}
  /\ UNCHANGED <<logged, items, loaded, thrown, buf>>

Next ==
  \/ \E e \in Slots :
       \/ \E c \in Contexts : \/ ThrowDataError(e, c)
                             \/ ThrowWithoutFailure(e, c)
                             \/ ThrowYangError(e, c)
       \/ WhatData(e) \/ WhatYangError(e) \/ EndHandler(e)
  \/ \E c \in Contexts : LogOnly(c) \/ LoadModule(c) \/ DestroyContext(c)

Spec == Init /\ [][Next]_vars

-----------------------------------------------------------------------------
(* Properties *)

IsDataError(x) == x # None /\ x.kind = "YangDataError"

\* what() is built late, from a pointer into libyang's list.  With LY_LOSTORE,
\* which the tests set, it still reports the failure that was thrown, while its
\* context exists, however many others follow and however many exceptions are
\* in flight (Exceptions.hpp:54-63, 106-110).  A null context stores no items.
CapturedIsCause ==
  \A e \in Slots : LET x == thrown[e] IN
    IsDataError(x) /\ x.cause # 0 /\ x.ctx_ \notin NullContexts =>
      /\ Live(x) => x.error_ # 0 /\ items[x.ctx_][x.error_] = x.cause
      /\ x.said # None => x.said.msg \in {x.cause, Freed}

\* Also when no libyang call failed (getDefaultContext finds no path, deserialize
\* rejects a tree) and the captured item is an older, unrelated one: what() does
\* not trade it for something that happened after the throw.  This is only about
\* exceptions that captured an item (Exceptions.hpp:46-49, 106-108).
CapturedIsNotLater ==
  \A e \in Slots : LET x == thrown[e] IN
    IsDataError(x) /\ x.error_ # 0 /\ x.said # None =>
      x.said.msg = Freed \/ x.said.msg <= x.at

\* A YangDataError that has spoken says the same again, whatever is logged,
\* loaded or destroyed in between (what_buf_, Exceptions.hpp:60, 98).
TextIsFixed ==
  [][\A e \in Slots :
       IsDataError(thrown[e]) /\ thrown[e].said # None =>
         thrown'[e] = None \/ thrown'[e].said = thrown[e].said]_vars

-----------------------------------------------------------------------------
(* What the comments say and the code does not do *)

\* "Append loaded modules from the context" (Exceptions.hpp:85)
ListsLoadedModules ==
  \A e \in Slots : LET x == thrown[e] IN
    IsDataError(x) /\ x.said # None => x.said.listed = 1..x.said.of

\* "Capture libyang error using provided context pointer; sets error_ and
\* message_" (Exceptions.hpp:44-45): whether or not there was an item to capture,
\* the message was taken when the exception was made.
NeverLater ==
  \A e \in Slots : LET x == thrown[e] IN
    IsDataError(x) /\ x.said # None => x.said.msg = Freed \/ x.said.msg <= x.at

=============================================================================
