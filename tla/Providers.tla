----------------------------- MODULE Providers -----------------------------
(***************************************************************************)
(* packages/core/src/application.ts: boot() of the registered providers,   *)
(* and the lazy providers a request (HttpKernel.handle), a command or a    *)
(* binding boots on its way.  Every hook is awaited and may fail.          *)
(***************************************************************************)
EXTENDS Naturals, FiniteSetsExt

CONSTANTS
    Providers,      \* how many are registered
    LazyProviders,  \* how many are registered lazily
    Starter,        \* calls of boot()
    LazyCall        \* requests and commands, each made once

ASSUME ProvidersAssumption ==
    /\ Providers \in Nat \ {0} /\ LazyProviders \in Nat \ {0}
    /\ IsFiniteSet(Starter)

Lazy == 1 .. LazyProviders
Hooks == 1 .. 2 * Providers     \* register() of each, then boot() of each

VARIABLES
    booted,
    starter,        \* the hook each boot() awaits; 0 before, 2N + 1 after
    hooked,         \* how often each hook ran to its end
    bootedLazyProviders,
    readied,        \* lazy providers whose hooks have resolved
    asker,          \* new, scan, register, boot, dispatched or failed
    wants,          \* the lazy providers a call matches
    cursor,         \* where its loop is
    bootTrouble,    \* history: a hook of boot() failed, or two boot() overlapped
    broken,         \* history: lazy providers whose hooks failed
    crossed         \* history: calls another one overlapped

bootVars == <<booted, starter, hooked, bootTrouble>>
lazyVars == <<bootedLazyProviders, readied, asker, wants, cursor, broken, crossed>>
providerVars == <<bootVars, lazyVars>>

InHook == {"register", "boot"}

ProvidersTypeOK ==
    /\ booted \in BOOLEAN /\ bootTrouble \in BOOLEAN
    /\ starter \in [Starter -> 0 .. 2 * Providers + 1]
    /\ hooked \in [Hooks -> 0 .. Cardinality(Starter)]
    /\ readied \subseteq bootedLazyProviders /\ bootedLazyProviders \subseteq Lazy
    /\ asker \in [LazyCall -> InHook \cup {"new", "scan", "dispatched", "failed"}]
    /\ wants \in [LazyCall -> SUBSET Lazy]
    /\ cursor \in [LazyCall -> 1 .. LazyProviders + 1]
    /\ broken \subseteq Lazy /\ crossed \subseteq LazyCall

ProvidersInit ==
    /\ booted = FALSE /\ bootTrouble = FALSE
    /\ starter = [b \in Starter |-> 0]
    /\ hooked = [h \in Hooks |-> 0]
    /\ bootedLazyProviders = {} /\ readied = {}
    /\ asker = [c \in LazyCall |-> "new"]
    /\ wants = [c \in LazyCall |-> {}]
    /\ cursor = [c \in LazyCall |-> 1]
    /\ broken = {} /\ crossed = {}
-----------------------------------------------------------------------------
Starting == {b \in Starter : starter[b] \in Hooks}

StartApp(b) ==
    /\ starter[b] = 0
    /\ IF booted
       THEN /\ starter' = [starter EXCEPT ![b] = 2 * Providers + 1]
            /\ UNCHANGED bootTrouble
       ELSE /\ starter' = [starter EXCEPT ![b] = 1]
            /\ bootTrouble' = (bootTrouble \/ Starting # {})
    /\ UNCHANGED <<booted, hooked, lazyVars>>

\* A hook of boot() resolves: on to the next, or all are done.
HookEnds(b) ==
    /\ starter[b] \in Hooks
    /\ starter' = [starter EXCEPT ![b] = @ + 1]
    /\ hooked' = [hooked EXCEPT ![starter[b]] = @ + 1]
    /\ booted' = (booted \/ starter[b] = 2 * Providers)
    /\ UNCHANGED <<bootTrouble, lazyVars>>

\* boot() fails as a whole; another call would begin anew.
HookFails(b) ==
    /\ starter[b] \in Hooks
    /\ starter' = [starter EXCEPT ![b] = 2 * Providers + 1]
    /\ bootTrouble' = TRUE
    /\ UNCHANGED <<booted, hooked, lazyVars>>
-----------------------------------------------------------------------------
Asking == {c \in LazyCall : asker[c] \in InHook \cup {"scan"}}

\* A request, command or binding that matches some lazy providers.
AskProviders(c, matched) ==
    /\ booted /\ asker[c] = "new"
    /\ asker' = [asker EXCEPT ![c] = "scan"]
    /\ wants' = [wants EXCEPT ![c] = matched]
    /\ crossed' = crossed \cup (IF Asking = {} THEN {} ELSE Asking \cup {c})
    /\ UNCHANGED <<bootVars, bootedLazyProviders, readied, cursor, broken>>

NextLazy(c) == {p \in wants[c] \ bootedLazyProviders : p >= cursor[c]}

\* Mutant: the loop starts again behind the next provider.
ScanOn(c) ==
    /\ asker[c] = "scan"
    /\ IF NextLazy(c) = {}
       THEN asker' = [asker EXCEPT ![c] = "dispatched"]
            /\ UNCHANGED <<bootedLazyProviders, cursor>>
       ELSE /\ bootedLazyProviders' = bootedLazyProviders \cup {Max(NextLazy(c))}
            /\ cursor' = [cursor EXCEPT ![c] = Max(NextLazy(c))]
            /\ asker' = [asker EXCEPT ![c] = "register"]
    /\ UNCHANGED <<bootVars, readied, wants, broken, crossed>>

\* The loop goes on to the next provider that matches and nobody began to
\* boot; behind the last one the call itself goes on.
Scan(c) ==
    /\ asker[c] = "scan"
    /\ IF NextLazy(c) = {}
       THEN asker' = [asker EXCEPT ![c] = "dispatched"]
            /\ UNCHANGED <<bootedLazyProviders, cursor>>
       ELSE /\ bootedLazyProviders' = bootedLazyProviders \cup {Min(NextLazy(c))}
            /\ cursor' = [cursor EXCEPT ![c] = Min(NextLazy(c))]
            /\ asker' = [asker EXCEPT ![c] = "register"]
    /\ UNCHANGED <<bootVars, readied, wants, broken, crossed>>

Registered(c) ==
    /\ asker[c] = "register"
    /\ asker' = [asker EXCEPT ![c] = "boot"]
    /\ UNCHANGED <<bootVars, bootedLazyProviders, readied, wants, cursor, broken, crossed>>

Ready(c) ==
    /\ asker[c] = "boot"
    /\ asker' = [asker EXCEPT ![c] = "scan"]
    /\ readied' = readied \cup {cursor[c]}
    /\ cursor' = [cursor EXCEPT ![c] = @ + 1]
    /\ UNCHANGED <<bootVars, bootedLazyProviders, wants, broken, crossed>>

\* A hook fails, and the call with it; the provider stays in the set.
LazyFails(c) ==
    /\ asker[c] \in InHook
    /\ asker' = [asker EXCEPT ![c] = "failed"]
    /\ broken' = broken \cup {cursor[c]}
    /\ UNCHANGED <<bootVars, bootedLazyProviders, readied, wants, cursor, crossed>>

ProvidersNext ==
    \/ \E b \in Starter : StartApp(b) \/ HookEnds(b) \/ HookFails(b)
    \/ \E c \in LazyCall :
          \/ \E matched \in SUBSET Lazy : AskProviders(c, matched)
          \/ Scan(c) \/ Registered(c) \/ Ready(c) \/ LazyFails(c)

ProvidersSpec == ProvidersInit /\ [][ProvidersNext]_providerVars
-----------------------------------------------------------------------------
\* An application that booted has every hook behind it, and only once unless a
\* hook failed before or somebody called boot() while it was under way.
BootedOnce ==
    /\ booted => \A h \in Hooks : hooked[h] > 0
    /\ ~bootTrouble => \A h \in Hooks : hooked[h] <= 1

\* Nobody boots a provider twice, and a call runs with all the providers it
\* matches, if it met no other call and no hook of theirs failed: a provider
\* another call began to boot is passed over, whether it is ready or not.
CallsFindProviders ==
    \A c \in LazyCall :
        /\ asker[c] = "dispatched" /\ c \notin crossed /\ wants[c] \cap broken = {}
           => wants[c] \subseteq readied
        /\ asker[c] \in InHook => \A d \in LazyCall \ {c} :
              asker[d] \in InHook => cursor[c] # cursor[d]

\* What has booted when a call is dispatched.
ProvidersInv == ProvidersTypeOK /\ BootedOnce /\ CallsFindProviders
=============================================================================
