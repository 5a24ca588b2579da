------------------------------ MODULE Scripts ------------------------------
(***************************************************************************)
(* What a method of a resource manager does, as data.  A call of a method  *)
(* is a script: the sequence of its steps, in the order of the code, each  *)
(* a request to the server or a test that may end the call.  A method      *)
(* whose arguments or optional parts choose between several courses is the *)
(* set of their scripts.  Calls.tla says what each step does; the modules  *)
(* ...Managers.tla list the scripts of every manager.                      *)
(*                                                                         *)
(* A manager works on the rows of one endpoint.  What it looks up, creates *)
(* or changes on another endpoint on the way is its parent: the network of *)
(* a rule, the service of a volume, the user of a key, the profile of a    *)
(* virtual machine.                                                        *)
(***************************************************************************)
EXTENDS Sequences

\* Tests on the arguments, on what the call has read and on its last answer.
ArgumentTests == {
    "invalid",      \* these arguments name nothing: ValueError
    "validate",     \* ValueError for a value or a combination it does not take
    "check",        \* raises if the row it has is in the wrong state
    "check parent", \* raises if the parent it has is in the wrong state
    "refuse found"  \* raises if the look before found a row
    }
AnswerTests == {
    "need answer",  \* raises if the answer to the write before has no object
    "need key"      \* raises if that object has no $key
    }
Moves == {
    "follow",       \* takes the parent from a field of the row it has
    "parent if known", \* takes the parent from an object that may not say
    "stop if found", \* returns the row the look before found
    "note",         \* enters what it has sent in its copy of the row
    "pause",        \* sleeps
    "expand"        \* further reads whose failures are ignored
    }

RowReads == {
    "get",          \* GET of the row by key, NotFoundError if there is none
    "get here",     \* the same, and NotFoundError for a row of another parent
    "peek",         \* looks for a row by name, goes on without one
    "peek any",     \* looks whether there is a row at all
    "find",         \* the first row of the name (of the parent), or NotFoundError
    "first",        \* any row of the parent, the first of an unsorted list, or NotFoundError
    "last",         \* the newest row of the parent, or NotFoundError
    "find created", \* searches for what it has just written, ValueError without it
    "get if keyed",   \* GET by the key in the answer, nothing if there is none
    "find if keyless", "find created if keyless", \* those above, but only if the answer
    "first if keyless", "last if keyless",        \* has no key
    "get unless answered", \* GET if the answer has no object
    "wait"          \* GETs the row until it is in the right state, or gives up
    }
Listings == {
    "list",         \* the rows of the parent
    "list loose",   \* joins a filter with an "or" to the parent's without brackets
    "collect"       \* all rows of the parent, to work on each
    }
ParentReads == {
    "resolve",            \* finds the parent by name, NotFoundError if there is none
    "resolve or invalid", \* ValueError if there is none
    "resolve or ignore",  \* goes on without a parent
    "resolve or empty",   \* returns the empty list
    "get parent",         \* GET of the parent by key, or NotFoundError
    "peek parent"         \* looks for it, goes on without it
    }
\* Reads of something else.
Asides == {
    "read aside",   \* a read that decides nothing here
    "list parents",
    "look up",      \* NotFoundError if there is none
    "look up or invalid", \* ValueError if there is none
    "wait task"     \* GETs a task until it is done, has failed or takes too long
    }

RowWrites == {
    "post",         \* creates a row
    "put",          \* changes fields of the row
    "act",          \* an action on the row
    "delete",       \* deletes the row
    "delete each"   \* deletes the rows collected, one request each
    }
OtherWrites == {
    "make parent",  \* creates the parent if the look before found none
    "put parent", "act on parent", "delete parent",
    "write aside"   \* a write that changes neither rows nor parents
    }

Reads == RowReads \cup Listings \cup ParentReads \cup Asides
Writes == RowWrites \cup OtherWrites
Steps == ArgumentTests \cup AnswerTests \cup Moves \cup Reads \cup Writes

-----------------------------------------------------------------------------
(* Scripts that many managers share.                                       *)

Invalid == <<"invalid">>
ByKey == <<"get">>
ByName == <<"find">>
\* get(key=...), get(name=...), or ValueError without either.
KeyOrName == {ByKey, ByName, Invalid}
KeyOnly == {ByKey, Invalid}
\* update that sends nothing for no fields, and the two ways it reads the row back.
PutGet == <<"put", "get">>
PutIfAny == {ByKey, PutGet}
PutOrInvalid == {Invalid, PutGet}
PutAnswer == <<"put", "get unless answered">>
\* create that reads its row back by the key in the answer.
PostAnswer == <<"post", "need answer">>
PostGet == PostAnswer \o <<"need key", "get">>
PostGetOrAnswer == PostAnswer \o <<"get if keyed">>
PostGetOrFind == <<"post", "get if keyed", "find if keyless">>
ProxyPost == PostAnswer \o <<"need key", "get here">>
\* A configuration row is made on first use.
BGPCreate == {PostGet, <<"peek parent", "make parent">> \o PostGet}
SettingsAction == <<"get", "validate", "follow", "act on parent">>

One(script) == {script}
After(first, scripts) == {first \o s : s \in scripts}
\* The methods of an object: the caller fetched it some time before.
OnObject(scripts) == After(<<"get">>, scripts)
Lists == One(<<"list">>)
Deletes == One(<<"delete">>)
Acts == One(<<"act">>)
ActGet == One(<<"act", "get">>)
PostFind == One(PostAnswer \o <<"find">>)
QueryRun == One(PostGetOrAnswer \o <<"need key", "wait">>)

\* The calls of managers, each a record of the scripts of its methods: of those that work
\* within one parent, whose key they hold, and of those that do not.
CallsOf(managers, within) ==
    {[within |-> within, script |-> s] : s \in UNION {UNION {m[f] : f \in DOMAIN m} : m \in managers}}
Within(managers) == CallsOf(managers, TRUE)
Free(managers) == CallsOf(managers, FALSE)
=============================================================================
