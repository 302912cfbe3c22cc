---------------------------- MODULE ContextIndex ----------------------------
(***************************************************************************)
(* The life of a context index of _retrieval.py: a build binds a provider   *)
(* in the registry, opens the native backends of its channels and transfers *)
(* the provider to the index; readers query the index under its lock; a     *)
(* close takes the backends under the lock and releases them outside it.    *)
(*                                                                         *)
(* The registry knows a provider by its address and a weak reference.  The  *)
(* callback of a reference that died comes later, and by then the address   *)
(* may belong to another provider.                                          *)
(***************************************************************************)
EXTENDS Naturals, FiniteSets

CONSTANTS
  Providers,  \* the embedding providers a program makes
  Address,    \* their addresses, which are used again
  Builds,     \* the calls of build_context_index
  Uses,       \* the provider a build is given
  Readers,    \* the calls of retrieve_context
  Closers,    \* the calls of close, __exit__ or __del__
  Target,     \* the build whose index a reader or a closer has
  Channels    \* the channels of the configuration

BuildsAssumption ==
  Uses \in [Builds -> Providers] /\ Target \in [Readers \cup Closers -> Builds]

VARIABLES
  life,      \* whether a provider exists
  provider,  \* whether its model is loaded
  registry,  \* _PROVIDER_REGISTRY: address |-> reference and owner
  expired,   \* the providers whose callback has not run yet
  building,  \* where a build is
  native,    \* build |-> channel |-> the backend made for it
  shuts,     \* build |-> channel |-> how often it was closed
  index,     \* build |-> None, or the flag _closed of its index
  has,       \* build |-> the channels whose backend its index refers to
  lock,      \* build |-> the caller in the lock of its index
  reading,   \* where a reader is
  closing,   \* where a closer is
  taken      \* the channels of the backends a closer has taken

objects == <<life, provider, registry, expired>>
backends == <<native, shuts>>
indexes == <<index, has, lock>>
callers == <<reading, closing, taken>>
vars == <<objects, building, backends, indexes, callers>>

Native == {"text", "vector"}
Nothing == <<>>
Token(b) == <<"token", b>>
Index(b) == <<"index", b>>
Addresses == {Address[p] : p \in Providers}

Init ==
  /\ life = [p \in Providers |-> "absent"]
  /\ provider = [p \in Providers |-> "new"]
  /\ registry = [a \in Addresses |-> Nothing]
  /\ expired = {}
  /\ building = [b \in Builds |-> "start"]
  /\ native = [b \in Builds |-> [x \in Native |-> "none"]]
  /\ shuts = [b \in Builds |-> [x \in Native |-> 0]]
  /\ index = [b \in Builds |-> "none"]
  /\ has = [b \in Builds |-> {}]
  /\ lock = [b \in Builds |-> Nothing]
  /\ reading = [r \in Readers |-> "start"]
  /\ closing = [c \in Closers |-> "start"]
  /\ taken = [c \in Closers |-> {}]

-----------------------------------------------------------------------------
(* The registry: <<the provider referred to, its owner>>. *)
Entry(p) == registry[Address[p]]
Alive(entry) == entry # Nothing /\ life[entry[1]] = "live"
OwnedBy(p, owner) == Entry(p) # Nothing /\ Entry(p) = <<p, owner>> /\ life[p] = "live"
Register(p, owner) == registry' = [registry EXCEPT ![Address[p]] = <<p, owner>>]

Bindable(p) == ~Alive(Entry(p))

(* The entry stays: a provider that was released is never bound again. *)
Release(p, owner) ==
  IF OwnedBy(p, owner) THEN Register(p, Nothing) ELSE UNCHANGED registry

Create(p) ==
  /\ life[p] = "absent"
  /\ \A other \in Providers : life[other] = "live" => Address[other] # Address[p]
  /\ life' = [life EXCEPT ![p] = "live"]
  /\ UNCHANGED <<provider, registry, expired, building, backends, indexes, callers>>

Users(b) == {x \in Readers : Target[x] = b /\ reading[x] \notin {"start", "ended"}}
            \cup {x \in Closers : Target[x] = b /\ closing[x] \notin {"start", "ended"}}
Dropped(b) ==
  \/ building[b] \in {"start", "refused", "failed"}
  \/ building[b] = "built" /\ index[b] = "closed" /\ Users(b) = {}

Collect(p) ==
  /\ life[p] = "live"
  /\ \A b \in Builds : Uses[b] = p => Dropped(b)
  /\ life' = [life EXCEPT ![p] = "dead"]
  /\ expired' = IF Entry(p) # Nothing /\ Entry(p)[1] = p THEN expired \cup {p} ELSE expired
  /\ UNCHANGED <<provider, registry, building, backends, indexes, callers>>

(* Bug: the callback goes by the address alone.                            *)
ForgetAddress(p) ==
  /\ p \in expired
  /\ expired' = expired \ {p}
  /\ registry' = [registry EXCEPT ![Address[p]] = Nothing]
  /\ UNCHANGED <<life, provider, building, backends, indexes, callers>>

Forget(p) ==
  /\ p \in expired
  /\ expired' = expired \ {p}
  /\ registry' = IF Entry(p) # Nothing /\ Entry(p)[1] = p
                   THEN [registry EXCEPT ![Address[p]] = Nothing]
                   ELSE registry
  /\ UNCHANGED <<life, provider, building, backends, indexes, callers>>

-----------------------------------------------------------------------------
Build(b, point) == building' = [building EXCEPT ![b] = point]

(* _bind_provider: the token of this build owns the provider. *)
Bind(b) ==
  /\ building[b] = "start"
  /\ life[Uses[b]] = "live"
  /\ IF Bindable(Uses[b])
       THEN Register(Uses[b], Token(b)) /\ Build(b, "corpus")
       ELSE UNCHANGED registry /\ Build(b, "refused")
  /\ UNCHANGED <<life, provider, expired, backends, indexes, callers>>

(* Whatever a build is at, it may fail or find the deadline exceeded. *)
BuildFails(b) ==
  /\ building[b] \in {"corpus", "initialize", "chunks", "text", "vector", "symbol", "publish"}
  /\ Build(b, "abandon")
  /\ UNCHANGED <<objects, backends, indexes, callers>>

ReadCorpus(b) ==
  /\ building[b] = "corpus"
  /\ Build(b, "initialize")
  /\ UNCHANGED <<objects, backends, indexes, callers>>

Initialize(b) ==
  /\ building[b] = "initialize"
  /\ \/ provider' = [provider EXCEPT ![Uses[b]] = "ready"] /\ Build(b, "chunks")
     \/ provider' = [provider EXCEPT ![Uses[b]] = "closed"] /\ Build(b, "abandon")
  /\ UNCHANGED <<life, registry, expired, backends, indexes, callers>>

BuildChunks(b) ==
  /\ building[b] = "chunks"
  /\ Build(b, "text")
  /\ UNCHANGED <<objects, backends, indexes, callers>>

After(channel) == IF channel = "text" THEN "vector" ELSE "symbol"

(* _build_text_index and _build_vector_index close what they cannot return. *)
BuildNative(b, channel) ==
  /\ building[b] = channel
  /\ \/ /\ channel \in Channels
        /\ native' = [native EXCEPT ![b][channel] = "open"]
        /\ Build(b, After(channel))
        /\ UNCHANGED shuts
     \/ /\ channel \in Channels
        /\ native' = [native EXCEPT ![b][channel] = "shut"]
        /\ shuts' = [shuts EXCEPT ![b][channel] = @ + 1]
        /\ Build(b, "abandon")
     \/ /\ channel \notin Channels
        /\ Build(b, After(channel))
        /\ UNCHANGED backends
  /\ UNCHANGED <<objects, indexes, callers>>

BuildSymbols(b) ==
  /\ building[b] = "symbol"
  /\ Build(b, "publish")
  /\ UNCHANGED <<objects, backends, indexes, callers>>

Opened(b) == {x \in Native : native[b][x] = "open"}

Publish(b) ==
  /\ building[b] = "publish"
  /\ IF OwnedBy(Uses[b], Token(b))
       THEN /\ Register(Uses[b], Index(b))
            /\ index' = [index EXCEPT ![b] = "open"]
            /\ has' = [has EXCEPT ![b] = Opened(b)]
            /\ Build(b, "built")
       ELSE /\ Build(b, "abandon")
            /\ UNCHANGED <<registry, index, has>>
  /\ UNCHANGED <<life, provider, expired, backends, lock, callers>>

Shut(b, channels) ==
  /\ native' = [native EXCEPT ![b] = [x \in Native |-> IF x \in channels THEN "shut" ELSE @[x]]]
  /\ shuts' = [shuts EXCEPT ![b] = [x \in Native |-> IF x \in channels THEN @[x] + 1 ELSE @[x]]]

(* The finally of a build that published nothing. *)
Abandon(b) ==
  /\ building[b] = "abandon"
  /\ Shut(b, Opened(b))
  /\ provider' = [provider EXCEPT ![Uses[b]] = "closed"]
  /\ Release(Uses[b], Token(b))
  /\ Build(b, "failed")
  /\ UNCHANGED <<life, expired, indexes, callers>>

-----------------------------------------------------------------------------
Read(r, point) == reading' = [reading EXCEPT ![r] = point]

Query(r) ==
  /\ reading[r] = "start"
  /\ index[Target[r]] # "none"
  /\ Read(r, "acquire")
  /\ UNCHANGED <<objects, building, backends, indexes, closing, taken>>

ReadLock(r) ==
  /\ reading[r] = "acquire"
  /\ lock[Target[r]] = Nothing
  /\ lock' = [lock EXCEPT ![Target[r]] = <<r>>]
  /\ Read(r, "check")
  /\ UNCHANGED <<objects, building, backends, index, has, closing, taken>>

ReadLockTimesOut(r) ==
  /\ reading[r] = "acquire"
  /\ lock[Target[r]] # Nothing
  /\ Read(r, "ended")
  /\ UNCHANGED <<objects, building, backends, indexes, closing, taken>>

ReadCheck(r) ==
  /\ reading[r] = "check"
  /\ Read(r, IF index[Target[r]] = "closed" THEN "release" ELSE "validate")
  /\ UNCHANGED <<objects, building, backends, indexes, closing, taken>>

Using == {"validate", "text", "vector", "symbol", "fuse"}
ReadNext(point) ==
  CASE point = "validate" -> "text" [] point = "text" -> "vector"
    [] point = "vector" -> "symbol" [] point = "symbol" -> "fuse"
    [] point = "fuse" -> "release"

(* Each of the channels is asked in turn. *)
ReadUse(r) ==
  /\ reading[r] \in Using
  /\ Read(r, ReadNext(reading[r]))
  /\ UNCHANGED <<objects, building, backends, indexes, closing, taken>>

ReadFails(r) ==
  /\ reading[r] \in Using
  /\ Read(r, "release")
  /\ UNCHANGED <<objects, building, backends, indexes, closing, taken>>

ReadRelease(r) ==
  /\ reading[r] = "release"
  /\ lock' = [lock EXCEPT ![Target[r]] = Nothing]
  /\ Read(r, "ended")
  /\ UNCHANGED <<objects, building, backends, index, has, closing, taken>>

-----------------------------------------------------------------------------
Closing(c, point) == closing' = [closing EXCEPT ![c] = point]

Close(c) ==
  /\ closing[c] = "start"
  /\ index[Target[c]] # "none"
  /\ Closing(c, "take")
  /\ UNCHANGED <<objects, building, backends, indexes, reading, taken>>

Take(c) ==
  LET b == Target[c]
  IN  /\ closing[c] = "take"
      /\ lock[b] = Nothing
      /\ IF index[b] = "closed"
           THEN Closing(c, "ended") /\ UNCHANGED <<index, has, taken>>
           ELSE /\ index' = [index EXCEPT ![b] = "closed"]
                /\ taken' = [taken EXCEPT ![c] = has[b]]
                /\ has' = [has EXCEPT ![b] = {}]
                /\ Closing(c, "text")
      /\ UNCHANGED <<objects, building, backends, lock, reading>>

(* An error of one backend is remembered and the next one is closed. *)
CloseNative(c, channel) ==
  /\ closing[c] = channel
  /\ Shut(Target[c], taken[c] \cap {channel})
  /\ Closing(c, IF channel = "text" THEN "vector" ELSE "provider")
  /\ UNCHANGED <<objects, building, indexes, reading, taken>>

CloseProvider(c) ==
  /\ closing[c] = "provider"
  /\ provider' = [provider EXCEPT ![Uses[Target[c]]] = "closed"]
  /\ Closing(c, "unbind")
  /\ UNCHANGED <<life, registry, expired, building, backends, indexes, reading, taken>>

Unbind(c) ==
  /\ closing[c] = "unbind"
  /\ Release(Uses[Target[c]], Index(Target[c]))
  /\ Closing(c, "ended")
  /\ UNCHANGED <<life, provider, expired, building, backends, indexes, reading, taken>>

-----------------------------------------------------------------------------
Objects == \E p \in Providers : Create(p) \/ Collect(p) \/ Forget(p)
BuildStep(b) ==
  \/ ReadCorpus(b) \/ Initialize(b) \/ BuildChunks(b)
  \/ \E channel \in Native : BuildNative(b, channel)
  \/ BuildSymbols(b) \/ Publish(b) \/ Abandon(b)
ReadStep(r) == ReadLock(r) \/ ReadCheck(r) \/ ReadUse(r) \/ ReadRelease(r)
CloseStep(c) ==
  \/ Take(c) \/ CloseProvider(c) \/ Unbind(c)
  \/ \E channel \in Native : CloseNative(c, channel)

Next ==
  \/ Objects
  \/ \E b \in Builds : Bind(b) \/ BuildFails(b) \/ BuildStep(b)
  \/ \E r \in Readers : Query(r) \/ ReadLockTimesOut(r) \/ ReadFails(r) \/ ReadStep(r)
  \/ \E c \in Closers : Close(c) \/ CloseStep(c)

Spec == Init /\ [][Next]_vars

(* The threads run, and a thread that waits for the lock gets it when nobody *)
(* holds it.  A query waits no longer than its deadline.                     *)
Fairness ==
  /\ \A r \in Readers : WF_vars(ReadStep(r) \/ ReadLockTimesOut(r))
  /\ \A c \in Closers : WF_vars(CloseStep(c))
FairSpec == Spec /\ Fairness

-----------------------------------------------------------------------------
BuildPoints == {"start", "refused", "corpus", "initialize", "chunks", "text", "vector",
                "symbol", "publish", "abandon", "built", "failed"}
ReadPoints == Using \cup {"start", "acquire", "check", "release", "ended"}
ClosePoints == Native \cup {"start", "take", "provider", "unbind", "ended"}
Owners == {Nothing} \cup {Token(b) : b \in Builds} \cup {Index(b) : b \in Builds}
TypeOK ==
  /\ life \in [Providers -> {"absent", "live", "dead"}]
  /\ provider \in [Providers -> {"new", "ready", "closed"}]
  /\ registry \in [Addresses -> {Nothing} \cup (Providers \X Owners)]
  /\ expired \in SUBSET Providers
  /\ building \in [Builds -> BuildPoints]
  /\ native \in [Builds -> [Native -> {"none", "open", "shut"}]]
  /\ shuts \in [Builds -> [Native -> Nat]]
  /\ index \in [Builds -> {"none", "open", "closed"}]
  /\ has \in [Builds -> SUBSET Channels]
  /\ lock \in [Builds -> {Nothing} \cup {<<r>> : r \in Readers}]
  /\ reading \in [Readers -> ReadPoints]
  /\ closing \in [Closers -> ClosePoints]
  /\ taken \in [Closers -> SUBSET Channels]

(***************************************************************************)
(* A query that asks a channel finds its backend and the provider open, for *)
(* as long as it does, and it is alone (_retrieval.py:2731, 369).           *)
(***************************************************************************)
NothingUsedAfterClose ==
  \A r \in Readers : reading[r] \in Using =>
    /\ lock[Target[r]] = <<r>>
    /\ has[Target[r]] = Native \cap Channels
    /\ \A x \in has[Target[r]] : native[Target[r]][x] = "open"
    /\ provider[Uses[Target[r]]] = "ready"

(***************************************************************************)
(* Nobody but its index closes the provider of an open index: a build that  *)
(* is given a provider in use is refused and leaves it alone, and so does   *)
(* the callback of an older provider at the same address (:252, :281).      *)
(***************************************************************************)
OpenIndexOwnsItsProvider ==
  \A b \in Builds : index[b] = "open" =>
    /\ OwnedBy(Uses[b], Index(b))
    /\ provider[Uses[b]] = "ready"
    /\ \A other \in Builds \ {b} :
         Uses[other] = Uses[b] => building[other] \in {"start", "refused"}

(***************************************************************************)
(* Whatever fails, a backend that was opened is closed once: by the index,  *)
(* when a closer has taken it, or by the build that fails (:361, :513).     *)
(***************************************************************************)
ShutOnce ==
  /\ \A b \in Builds, x \in Native : shuts[b][x] = (IF native[b][x] = "shut" THEN 1 ELSE 0)
  /\ \A b \in Builds : building[b] = "failed" => Opened(b) = {}
  /\ \A c \in Closers :
       closing[c] = "ended" /\ taken[c] # {} => Opened(Target[c]) = {}
=============================================================================
