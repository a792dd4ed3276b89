---------------------------- MODULE FfiBoundary ----------------------------
(***************************************************************************)
(* The C interface of the library (crates/ffi).  Threads of a host program *)
(* create adapters, resolve elements to native handles, act through them,  *)
(* run commands that answer with a string, and give all of it back.  An    *)
(* adapter handle is an identifier in a table of the process, a native     *)
(* handle one in a table of the thread that resolved it, and a string an   *)
(* address that the process remembers having handed out; the error of a    *)
(* failed call is kept for the thread.  A host may destroy an adapter that *)
(* is in use, use a handle from the wrong thread or with the wrong         *)
(* adapter, free things twice, and call back into the library from its log *)
(* callback.  A call may panic.                                            *)
(***************************************************************************)
EXTENDS Naturals, FiniteSets

CONSTANTS
  MaxCalls,      \* bound: calls the host makes
  MaxAdapters    \* bound: adapters, and handles, it is given

VARIABLES
  adapters,   \* ADAPTERS: the identifiers that are registered
  made,       \* how many identifiers of adapters were allocated
  owners,     \* how many owners an adapter has: the table, and running calls
  handles,    \* HANDLES: of each thread, the tokens with their adapters
  tokens,     \* how many tokens were allocated
  sharers,    \* how many owners the element of a token has
  maker,      \* the thread and the adapter that resolved a token
  allocated,  \* the addresses of the heap that hold a string
  known,      \* ALLOCATIONS: the addresses that may be freed
  hosted,     \* the strings that the host was given and has not freed
  lastError,  \* LAST_ERROR: of each thread
  failure,    \* what the last call of the thread that failed said
  doing,      \* what each thread does: "idle", "act", "resolve", "command",
              \* "hand over", "free"
  held,       \* the adapter its call uses, or 0
  using,      \* the token its call uses, or 0
  block,      \* the address its call hands over or frees, or 0
  calls

adapterVars == <<adapters, made, owners>>
handleVars == <<handles, tokens, sharers, maker>>
stringVars == <<allocated, known, hosted, block>>
errorVars == <<lastError, failure>>
vars == <<adapterVars, handleVars, stringVars, errorVars, doing, held, using, calls>>

Threads == 1 .. 2
Ids == 1 .. MaxAdapters
Addresses == 1 .. 2

-----------------------------------------------------------------------------
(* Errors (error.rs, ffi_try.rs) *)

\* set_last_error and the code that the call returns: what is in the slot then.
FailWith(t, code) ==
  /\ lastError' = [lastError EXCEPT ![t] = code]
  /\ failure' = [failure EXCEPT ![t] = code]

\* trap_panic: the call returned an error of its own, or panicked.
Failing(t) == \E code \in {"failed", "internal"} : FailWith(t, code)

Call(t) == doing[t] = "idle" /\ calls < MaxCalls /\ calls' = calls + 1

\* A call that is refused, and one that only goes in and out.
Refuse(t) ==
  /\ FailWith(t, "invalid")
  /\ UNCHANGED <<adapterVars, handleVars, stringVars, doing, held, using>>

\* In its log callback a thread may call again while its call runs.
Reenters(t) ==
  /\ doing[t] \in {"idle", "act", "resolve", "command"}
  /\ calls < MaxCalls /\ calls' = calls + 1

-----------------------------------------------------------------------------
(* Adapters (adapter.rs) *)

\* create_adapter, register_adapter.
Create(t) ==
  /\ Reenters(t)
  /\ \/ /\ made < MaxAdapters
        /\ made' = made + 1 /\ adapters' = adapters \cup {made + 1}
        /\ owners' = [owners EXCEPT ![made + 1] = 1]
        /\ UNCHANGED <<handleVars, stringVars, errorVars, doing, held, using>>
     \/ Refuse(t)

\* lookup_adapter: the call becomes an owner.
LookUp(t, a) == a \in adapters /\ held' = [held EXCEPT ![t] = a]

Share(a) == owners' = [owners EXCEPT ![a] = @ + 1] /\ UNCHANGED <<adapters, made>>

\* A call that ends drops what it owns.
Unshare(t) ==
  /\ owners' = [owners EXCEPT ![held[t]] = @ - 1] /\ UNCHANGED <<adapters, made>>
  /\ held' = [held EXCEPT ![t] = 0]

\* ad_adapter_destroy: what runs keeps the adapter until it returns.
Destroy(t, a) ==
  /\ Reenters(t) /\ a <= made
  /\ \/ /\ a \in adapters /\ adapters' = adapters \ {a}
        /\ owners' = [owners EXCEPT ![a] = @ - 1]
        /\ UNCHANGED <<made, handleVars, stringVars, errorVars, doing, held, using>>
     \/ a \notin adapters /\ Refuse(t)

-----------------------------------------------------------------------------
(* Native handles (actions/native_handle.rs, actions/resolve.rs, find.rs) *)

\* ad_resolve_element_exact, ad_find_exact: an input that does not decode is
\* refused before the adapter is looked up.
Resolve(t, a) ==
  /\ Call(t) /\ a <= made
  /\ \/ /\ LookUp(t, a) /\ Share(a) /\ doing' = [doing EXCEPT ![t] = "resolve"]
        /\ UNCHANGED <<handleVars, stringVars, errorVars, using>>
     \/ Refuse(t)

\* into_ffi_handle: the adapter may have been destroyed meanwhile.
Resolved(t) ==
  /\ doing[t] = "resolve" /\ doing' = [doing EXCEPT ![t] = "idle"] /\ Unshare(t)
  /\ \/ /\ tokens < MaxAdapters /\ tokens' = tokens + 1
        /\ handles' = [handles EXCEPT ![t] = @ \cup {<<tokens + 1, held[t]>>}]
        /\ sharers' = [sharers EXCEPT ![tokens + 1] = 1]
        /\ maker' = [maker EXCEPT ![tokens + 1] = <<t, held[t]>>]
        /\ UNCHANGED errorVars
     \/ Failing(t) /\ UNCHANGED handleVars
  /\ UNCHANGED <<stringVars, using, calls>>

\* acquire_ffi_handle
Acquire(t, h, a) == <<h, a>> \in handles[t]

\* ad_execute_action_with_policy, ad_get.
Act(t, a, h) ==
  /\ Call(t) /\ a <= made /\ h <= tokens
  /\ \/ /\ LookUp(t, a) /\ Acquire(t, h, a) /\ Share(a)
        /\ sharers' = [sharers EXCEPT ![h] = @ + 1] /\ using' = [using EXCEPT ![t] = h]
        /\ doing' = [doing EXCEPT ![t] = "act"]
        /\ UNCHANGED <<handles, tokens, maker, stringVars, errorVars>>
     \/ Refuse(t)

\* execute_verified_action returned, or panicked.
Acted(t) ==
  /\ doing[t] = "act" /\ doing' = [doing EXCEPT ![t] = "idle"] /\ Unshare(t)
  /\ sharers' = [sharers EXCEPT ![using[t]] = @ - 1] /\ using' = [using EXCEPT ![t] = 0]
  /\ Failing(t) \/ UNCHANGED errorVars
  /\ UNCHANGED <<handles, tokens, maker, stringVars, calls>>

\* ad_free_handle: the adapter need not be registered any more.
FreeHandle(t, a, h) ==
  /\ Reenters(t) /\ a <= made /\ h <= tokens
  /\ \/ /\ <<h, a>> \in handles[t]
        /\ handles' = [handles EXCEPT ![t] = @ \ {<<h, a>>}]
        /\ sharers' = [sharers EXCEPT ![h] = @ - 1]
        /\ UNCHANGED <<adapterVars, tokens, maker, stringVars, errorVars>>
        /\ UNCHANGED <<doing, held, using>>
     \/ <<h, a>> \notin handles[t] /\ Refuse(t)

\* A thread ends, and what it kept for itself goes; another takes its place.
ThreadEnds(t) ==
  /\ doing[t] = "idle" /\ handles[t] # {}
  /\ sharers' = [h \in Ids |-> IF \E a \in Ids : <<h, a>> \in handles[t]
                               THEN sharers[h] - 1 ELSE sharers[h]]
  /\ handles' = [handles EXCEPT ![t] = {}]
  /\ lastError' = [lastError EXCEPT ![t] = "none"]
  /\ failure' = [failure EXCEPT ![t] = "none"]
  /\ UNCHANGED <<adapterVars, tokens, maker, stringVars, doing, held, using, calls>>

-----------------------------------------------------------------------------
(* Commands and their strings (commands, convert/string.rs, resource.rs) *)

\* ad_snapshot, ad_wait, ad_execute_by_ref_timeout and the others.
Command(t, a) ==
  /\ Call(t) /\ a <= made
  /\ \/ /\ LookUp(t, a) /\ Share(a) /\ doing' = [doing EXCEPT ![t] = "command"]
        /\ UNCHANGED <<handleVars, stringVars, errorVars, using>>
     \/ Refuse(t)

\* write_command_envelope: the string says how the command ended, a failed one
\* too; into_registered_c_string allocates it.  complete_scope may fail before,
\* and a panic leaves no string.
Commanded(t) ==
  /\ doing[t] = "command"
  /\ \/ \E a \in Addresses \ allocated :
          /\ allocated' = allocated \cup {a} /\ block' = [block EXCEPT ![t] = a]
          /\ FailWith(t, "failed") \/ UNCHANGED errorVars
          /\ doing' = [doing EXCEPT ![t] = "hand over"]
          /\ UNCHANGED <<adapterVars, held>>
     \/ /\ Failing(t) /\ doing' = [doing EXCEPT ![t] = "idle"] /\ Unshare(t)
        /\ UNCHANGED <<allocated, block>>
  /\ UNCHANGED <<handleVars, known, hosted, using, calls>>

\* register_allocation, and the call returns.
HandOver(t) ==
  /\ doing[t] = "hand over" /\ doing' = [doing EXCEPT ![t] = "idle"] /\ Unshare(t)
  /\ known' = known \cup {block[t]} /\ hosted' = hosted \cup {block[t]}
  /\ block' = [block EXCEPT ![t] = 0]
  /\ UNCHANGED <<handleVars, allocated, errorVars, using, calls>>

\* take_allocation: what is not known is left alone.
Take(t, a) ==
  IF a \in known
  THEN /\ known' = known \ {a} /\ block' = [block EXCEPT ![t] = a]
       /\ doing' = [doing EXCEPT ![t] = "free"]
  ELSE UNCHANGED <<known, block, doing>>

\* ad_free_string, ad_free_tree, ad_free_action_result.  The host frees what it
\* owns, or again what it has freed, as long as nothing else is in its place.
FreeString(t, a) ==
  /\ Call(t) /\ hosted' = hosted \ {a}
  /\ a \in hosted \/ \A u \in Threads : doing[u] = "hand over" => block[u] # a
  /\ Take(t, a)
  /\ UNCHANGED <<adapterVars, handleVars, allocated, errorVars, held, using>>

\* CString::from_raw
Freed(t) ==
  /\ doing[t] = "free" /\ doing' = [doing EXCEPT ![t] = "idle"]
  /\ allocated' = allocated \ {block[t]} /\ block' = [block EXCEPT ![t] = 0]
  /\ UNCHANGED <<adapterVars, handleVars, known, hosted, errorVars, held, using, calls>>

-----------------------------------------------------------------------------

Init ==
  /\ adapters = {} /\ made = 0 /\ owners = [a \in Ids |-> 0]
  /\ handles = [t \in Threads |-> {}] /\ tokens = 0 /\ sharers = [h \in Ids |-> 0]
  /\ maker = [h \in Ids |-> <<0, 0>>]
  /\ allocated = {} /\ known = {} /\ hosted = {} /\ block = [t \in Threads |-> 0]
  /\ lastError = [t \in Threads |-> "none"] /\ failure = lastError
  /\ doing = [t \in Threads |-> "idle"] /\ held = [t \in Threads |-> 0] /\ using = held
  /\ calls = 0

Next ==
  \E t \in Threads :
    \/ Create(t) \/ Resolved(t) \/ Acted(t) \/ ThreadEnds(t)
    \/ Commanded(t) \/ HandOver(t) \/ Freed(t)
    \/ \E a \in Ids : Destroy(t, a) \/ Resolve(t, a) \/ Command(t, a)
    \/ \E a \in Ids, h \in Ids : Act(t, a, h) \/ FreeHandle(t, a, h)
    \/ \E a \in Addresses : FreeString(t, a)

Spec == Init /\ [][Next]_vars

-----------------------------------------------------------------------------
(* Properties *)

\* The values the state takes.
TypeOK ==
  /\ adapters \subseteq 1 .. made /\ owners \in [Ids -> 0 .. 3]
  /\ \A t \in Threads : handles[t] \subseteq (1 .. tokens) \X (1 .. made)
  /\ sharers \in [Ids -> 0 .. 2] /\ known \subseteq Addresses /\ allocated \subseteq Addresses
  /\ held \in [Threads -> 0 .. made] /\ using \in [Threads -> 0 .. tokens]

\* An adapter lives as long as it is registered or a call uses it, and no longer:
\* its session is neither given up under a running command nor kept for ever.
AdaptersLiveLongEnough ==
  \A a \in 1 .. made :
    owners[a] = Cardinality({t \in Threads : held[t] = a}) + (IF a \in adapters THEN 1 ELSE 0)

\* A call acts on an element only if its thread resolved it with the adapter that
\* it names, and the element lives until the call returns, although the host
\* frees it meanwhile.
HandlesAreTheirOwners ==
  \A t \in Threads : using[t] # 0 => maker[using[t]] = <<t, held[t]>> /\ sharers[using[t]] > 0

\* A string that the host owns is there and can be freed, once, and none is left
\* behind that nobody can free.
StringsAreFreedOnce ==
  /\ hosted \subseteq allocated \cap known
  /\ \A a \in allocated \ hosted : Cardinality({t \in Threads : block[t] = a}) = 1
  /\ \A t \in Threads : block[t] # 0 => block[t] \in allocated \ known

\* The error a thread can read is that of its own last call that failed, whatever
\* other threads and the calls of its log callback do.
ErrorsAreOfTheThread == \A t \in Threads : doing[t] = "idle" => lastError[t] = failure[t]

BoundaryIsSound ==
  AdaptersLiveLongEnough /\ HandlesAreTheirOwners /\ StringsAreFreedOnce /\ ErrorsAreOfTheThread
-----------------------------------------------------------------------------
(* The inductive invariant *)

One(yes) == IF yes THEN 1 ELSE 0

\* What a call has while it runs: an adapter, an element, an address.
CallsHaveTheirOwn ==
  /\ doing \in [Threads -> {"idle", "act", "resolve", "command", "hand over", "free"}]
  /\ \A t \in Threads :
       /\ held[t] # 0 <=> doing[t] \in {"act", "resolve", "command", "hand over"}
       /\ using[t] # 0 <=> doing[t] = "act"
       /\ block[t] # 0 <=> doing[t] \in {"hand over", "free"}

OwnersAreCounted ==
  /\ made \in 0 .. MaxAdapters /\ adapters \subseteq 1 .. made
  /\ held \in [Threads -> 0 .. made] /\ owners \in [Ids -> 0 .. 3]
  /\ \A a \in Ids : owners[a] = One(held[1] = a) + One(held[2] = a) + One(a \in adapters)

\* A token is in the table of the thread that resolved it, or freed; that thread
\* alone uses it.
SharersAreCounted ==
  /\ tokens \in 0 .. MaxAdapters /\ using \in [Threads -> 0 .. tokens]
  /\ sharers \in [Ids -> 0 .. 2] /\ DOMAIN maker = Ids /\ DOMAIN handles = Threads
  /\ \A t \in Threads : using[t] # 0 => maker[using[t]] = <<t, held[t]>>
  /\ \A t \in Threads : \A e \in handles[t] :
       e[1] \in 1 .. tokens /\ maker[e[1]] = <<t, e[2]>> /\ e = <<e[1], e[2]>>
  /\ \A h \in 1 .. tokens :
       /\ maker[h][1] \in Threads /\ maker[h][2] \in 1 .. made
       /\ sharers[h] = One(<<h, maker[h][2]>> \in handles[maker[h][1]])
                       + One(using[maker[h][1]] = h)

\* The host has the strings that are known, and each other one a call.
StringsAreSomebodys ==
  /\ hosted = known /\ known \subseteq allocated /\ allocated \subseteq Addresses
  /\ block \in [Threads -> {0} \cup Addresses]
  /\ \A a \in allocated \ known : \E t \in Threads : block[t] = a
  /\ \A t \in Threads : block[t] # 0 => block[t] \in allocated \ known
  /\ block[1] = block[2] => block[1] = 0

ErrorsAreKept ==
  lastError = failure /\ DOMAIN lastError = Threads

BoundaryInv ==
  /\ CallsHaveTheirOwn /\ OwnersAreCounted /\ SharersAreCounted
  /\ StringsAreSomebodys /\ ErrorsAreKept
=============================================================================
