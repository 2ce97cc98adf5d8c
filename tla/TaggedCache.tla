---------------------------- MODULE TaggedCache ----------------------------
(***************************************************************************)
(* packages/cache/src/tagged-cache.ts on the index operations of           *)
(* cache-repository.ts: each tag has a list of the keys stored under it,   *)
(* kept in the same store.  A step is one request to the store.            *)
(***************************************************************************)
EXTENDS FiniteSets

CONSTANTS
    TaggedKey, Tag,
    TagChoice,  \* the lists of tags given to tags()
    TagUser     \* calls of put(), forget() and flush() that may run at once

ASSUME TagAssumption == TagChoice \subseteq SUBSET Tag

VARIABLES
    tagged,     \* the keys that have a value
    tagIndex,   \* the keys in each tag's list
    tagsOf,     \* history: the tags of the last put() of a key
    tagOp,      \* the call each user has under way
    unsure      \* history: keys whose last put() or forget() met another call
                \* under way, or was interrupted

tagVars == <<tagged, tagIndex, tagsOf, tagOp, unsure>>

NoTagOp == [at |-> "idle"]
InTagOp(c) == tagOp[c].at # "idle"

TagInit ==
    /\ tagged = {}
    /\ tagIndex = [t \in Tag |-> {}]
    /\ tagsOf = [k \in TaggedKey |-> {}]
    /\ tagOp = [c \in TagUser |-> NoTagOp]
    /\ unsure = {}

\* A call starts; names are the keys it is about.
BeginTagOp(c, names, call) ==
    LET others == {d \in TagUser \ {c} : InTagOp(d)} IN
        /\ tagOp' = [tagOp EXCEPT ![c] = call]
        /\ unsure' = IF others = {} THEN unsure \ names
                     ELSE unsure \cup names \cup UNION {tagOp[d].names : d \in others}

\* The call is done with one of its tags, and goes on with the rest.
NextTag(c, t, then) ==
    tagOp' = [tagOp EXCEPT ![c] =
              IF tagOp[c].rest = {t} THEN then ELSE [tagOp[c] EXCEPT !.rest = @ \ {t}]]
-----------------------------------------------------------------------------
\* put(): the value, and then trackTaggedKey().
TaggedPut(c, k, tags) ==
    /\ ~InTagOp(c)
    /\ tagged' = tagged \cup {k}
    /\ tagsOf' = [tagsOf EXCEPT ![k] = tags]
    /\ BeginTagOp(c, {k}, [at |-> "track", names |-> {k}, key |-> k, rest |-> tags])
    /\ UNCHANGED tagIndex

\* forget(): the value, and then untrackTaggedKey().
TaggedForget(c, k, tags) ==
    /\ ~InTagOp(c)
    /\ tagged' = tagged \ {k}
    /\ BeginTagOp(c, {k}, [at |-> "untrack", names |-> {k}, key |-> k, rest |-> tags])
    /\ UNCHANGED <<tagIndex, tagsOf>>

\* The list is read.  A key that is there already is not added, a list that
\* is not there is not written back.
ReadIndex(c, t) ==
    /\ tagOp[c].at \in {"track", "untrack"} /\ t \in tagOp[c].rest
    /\ IF \/ tagOp[c].at = "track" /\ tagOp[c].key \in tagIndex[t]
          \/ tagOp[c].at = "untrack" /\ tagIndex[t] = {}
       THEN NextTag(c, t, NoTagOp)
       ELSE tagOp' = [tagOp EXCEPT ![c] =
               [at |-> "write", names |-> tagOp[c].names, rest |-> tagOp[c].rest,
                back |-> tagOp[c].at, key |-> tagOp[c].key, tag |-> t, seen |-> tagIndex[t]]]
    /\ UNCHANGED <<tagged, tagIndex, tagsOf, unsure>>

\* The list as it was read is written back, with the key or without it.
WriteIndex(c) ==
    /\ tagOp[c].at = "write"
    /\ tagIndex' = [tagIndex EXCEPT ![tagOp[c].tag] =
           IF tagOp[c].back = "track" THEN tagOp[c].seen \cup {tagOp[c].key}
                                   ELSE tagOp[c].seen \ {tagOp[c].key}]
    /\ tagOp' = [tagOp EXCEPT ![c] =
           IF tagOp[c].rest = {tagOp[c].tag} THEN NoTagOp
           ELSE [at |-> tagOp[c].back, names |-> tagOp[c].names, key |-> tagOp[c].key,
                 rest |-> tagOp[c].rest \ {tagOp[c].tag}]]
    /\ UNCHANGED <<tagged, tagsOf, unsure>>
-----------------------------------------------------------------------------
\* flush(): the lists of all tags are read, ...
TaggedFlush(c, tags) ==
    /\ ~InTagOp(c)
    /\ BeginTagOp(c, {}, [at |-> "collect", names |-> {}, tags |-> tags,
                     rest |-> tags, doomed |-> {}])
    /\ UNCHANGED <<tagged, tagIndex, tagsOf>>

Collect(c, t) ==
    /\ tagOp[c].at = "collect" /\ t \in tagOp[c].rest
    /\ LET found == [tagOp[c] EXCEPT !.doomed = @ \cup tagIndex[t], !.rest = @ \ {t}] IN
           tagOp' = [tagOp EXCEPT ![c] =
               IF found.rest # {} THEN found
               ELSE [found EXCEPT !.rest = found.tags,
                        !.at = IF found.doomed = {} THEN "clear" ELSE "drop"]]
    /\ UNCHANGED <<tagged, tagIndex, tagsOf, unsure>>

\* Mutant: one key is forgotten, and the lists are cleared.
DropOne(c, k) ==
    /\ tagOp[c].at = "drop" /\ k \in tagOp[c].doomed
    /\ tagged' = tagged \ {k}
    /\ tagOp' = [tagOp EXCEPT ![c].doomed = @ \ {k}, ![c].at = "clear"]
    /\ UNCHANGED <<tagIndex, tagsOf, unsure>>

\* ... each key found is forgotten, ...
DropKey(c, k) ==
    /\ tagOp[c].at = "drop" /\ k \in tagOp[c].doomed
    /\ tagged' = tagged \ {k}
    /\ tagOp' = [tagOp EXCEPT ![c].doomed = @ \ {k},
                        ![c].at = IF tagOp[c].doomed = {k} THEN "clear" ELSE "drop"]
    /\ UNCHANGED <<tagIndex, tagsOf, unsure>>

\* ... and the lists are.
ClearTag(c, t) ==
    /\ tagOp[c].at = "clear" /\ t \in tagOp[c].rest
    /\ tagIndex' = [tagIndex EXCEPT ![t] = {}]
    /\ NextTag(c, t, NoTagOp)
    /\ UNCHANGED <<tagged, tagsOf, unsure>>

\* A value's time to live ends.
ExpireTagged(k) ==
    /\ k \in tagged
    /\ tagged' = tagged \ {k}
    /\ UNCHANGED <<tagIndex, tagsOf, tagOp, unsure>>

\* The store refuses a request, or the process dies.
InterruptTagOp(c) ==
    /\ InTagOp(c)
    /\ tagOp' = [tagOp EXCEPT ![c] = NoTagOp]
    /\ unsure' = unsure \cup tagOp[c].names
    /\ UNCHANGED <<tagged, tagIndex, tagsOf>>

TagNext ==
    \/ \E c \in TagUser :
          \/ WriteIndex(c) \/ InterruptTagOp(c)
          \/ \E tags \in TagChoice :
                TaggedFlush(c, tags) \/ \E k \in TaggedKey : TaggedPut(c, k, tags) \/ TaggedForget(c, k, tags)
          \/ \E t \in Tag : ReadIndex(c, t) \/ Collect(c, t) \/ ClearTag(c, t)
          \/ \E k \in TaggedKey : DropKey(c, k)
    \/ \E k \in TaggedKey : ExpireTagged(k)

TagSpec == TagInit /\ [][TagNext]_tagVars

\* No call fails, and a flush() overlaps no other call: only put()s meet.
CalmNext ==
    \E c \in TagUser :
        \/ WriteIndex(c)
        \/ \E t \in Tag : ReadIndex(c, t) \/ Collect(c, t) \/ ClearTag(c, t)
        \/ \E k \in TaggedKey : DropKey(c, k)
        \/ \E tags \in TagChoice, k \in TaggedKey :
              /\ \A d \in TagUser : tagOp[d].at \in {"idle", "track", "write"}
              /\ TaggedPut(c, k, tags)
        \/ \E tags \in TagChoice :
              (\A d \in TagUser : ~InTagOp(d)) /\ TaggedFlush(c, tags)

CalmTagSpec == TagInit /\ [][CalmNext]_tagVars
-----------------------------------------------------------------------------
\* A key that is stored is in the lists of its tags, and a flush will find it.
StoredKeysAreIndexed ==
    \A k \in tagged \ unsure, t \in Tag :
        t \in tagsOf[k] =>
            k \in tagIndex[t] \/ \E c \in TagUser : tagOp[c].at \in {"track", "write"}
                                             /\ tagOp[c].key = k

\* Once flush() is about to clear the lists, nothing of its tags is left.
FlushLeavesNothing ==
    \A c \in TagUser : tagOp[c].at = "clear" =>
        \A k \in tagged \ unsure : tagsOf[k] \cap tagOp[c].tags = {}

\* The lists of the tags keep up with what is stored, and a flush by them is
\* complete.
TagsInv == StoredKeysAreIndexed /\ FlushLeavesNothing

\* What tagged-cache.test.ts expects of flush(), that get() of a key put under
\* the tag is null, of every key: put()s that met each other included.
FlushIsComplete ==
    \A c \in TagUser : tagOp[c].at = "clear" =>
        \A k \in tagged : tagsOf[k] \cap tagOp[c].tags = {}
=============================================================================
