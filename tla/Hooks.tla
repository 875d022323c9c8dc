------------------------------- MODULE Hooks -------------------------------
(***************************************************************************)
(* Hooks and the plugins that bring them (extensions/hooks.rs, plugin.rs): *)
(* install_plugin_with registers the hooks of a directory, dispatch runs   *)
(* those that fire one after the other, each under its own time limit.     *)
(* Both borrow the dispatcher, the first mutably: one is at work at a time.*)
(***************************************************************************)
EXTENDS Naturals, SequencesExt

CONSTANTS
    Plugin,      \* directories: records [manifest, context, file, hooks]
    Event,       \* HookEvent
    Payload,     \* what a matcher tells apart of the payload
    MaxInstalls, \* bound: calls of install_plugin_with
    MaxRuns      \* bound: calls of dispatch

VARIABLES
    hooks,       \* HookDispatcher.hooks
    installed,   \* history: the plugins whose installation succeeded, in order
    installs,    \* counter for the bound
    runs,        \* counter for the bound
    event,       \* what is dispatched, "none" between two calls
    payload,
    next,        \* the hook to look at
    results,     \* what dispatch returns
    took,        \* history: what each of those hooks did
    orphans      \* commands whose time was up and that nobody killed

vars == <<hooks, installed, installs, runs, event, payload, next, results, took, orphans>>

\* What a handler does: a command or a request says one of the first four (an
\* exit code or a status that is no success denies, nothing at all allows), or
\* fails (no such command, no JSON), or takes too long.
Said == {"Allow", "Deny", "Modify", "Continue"}
Does(hook) == IF hook.handler \in {"command", "http"} THEN Said \cup {"fails", "hangs"}
              ELSE {"Continue"}

Init ==
    /\ hooks = <<>> /\ installed = <<>> /\ installs = 0 /\ runs = 0
    /\ event = "none" /\ payload = "none" /\ next = 1
    /\ results = <<>> /\ took = <<>> /\ orphans = 0

-----------------------------------------------------------------------------
(* Plugins *)

\* A context or a hooks file that is named but not there is passed over.
Brought(plugin) == IF plugin.file = "absent" THEN <<>> ELSE plugin.hooks

\* All that can go wrong comes before the first registration; what is wrong with
\* the skills never shows.
Installs(plugin) ==
    /\ plugin.manifest = "ok"
    /\ plugin.context # "unreadable"
    /\ plugin.file # "malformed"

Install(plugin) ==
    /\ event = "none" /\ installs < MaxInstalls
    /\ installs' = installs + 1
    /\ IF Installs(plugin)
       THEN /\ hooks' = hooks \o Brought(plugin)
            /\ installed' = Append(installed, plugin)
       ELSE UNCHANGED <<hooks, installed>>
    /\ UNCHANGED <<runs, event, payload, next, results, took, orphans>>

-----------------------------------------------------------------------------
(* HookDispatcher.dispatch *)

Dispatch(e, p) ==
    /\ event = "none" /\ runs < MaxRuns
    /\ runs' = runs + 1
    /\ event' = e /\ payload' = p
    /\ next' = 1 /\ results' = <<>> /\ took' = <<>>
    /\ UNCHANGED <<hooks, installed, installs, orphans>>

Fires(hook) == hook.event = event /\ payload \in hook.matches

\* Mutant: a hook that fails denies, whether it may block or not.
DeniesIfFailing(hook, what) == IF what \in Said THEN what ELSE "Deny"
\* What a handler says counts as it is, can_block or not; can_block is only
\* about the two ways to say nothing.
Outcome(hook, what) ==
    CASE what \in Said -> what
      [] what \notin Said /\ hook.can_block -> "Deny"
      [] what \notin Said /\ ~hook.can_block -> "Continue"

\* execute under timeout: nobody waits for a command whose time is up, and
\* nobody ends it.
RunHook(what) ==
    /\ event # "none" /\ next <= Len(hooks)
    /\ next' = next + 1
    /\ LET hook == hooks[next]
       IN  \/ /\ Fires(hook) /\ what \in Does(hook)
              /\ results' = Append(results, Outcome(hook, what))
              /\ took' = Append(took, [hook |-> next, did |-> what])
              /\ orphans' = orphans + (IF what = "hangs" /\ hook.handler = "command" THEN 1 ELSE 0)
           \/ /\ ~Fires(hook) /\ what = "Continue"
              /\ UNCHANGED <<results, took, orphans>>
    /\ UNCHANGED <<hooks, installed, installs, runs, event, payload>>

Finish ==
    /\ event # "none" /\ next > Len(hooks)
    /\ event' = "none"
    /\ UNCHANGED <<hooks, installed, installs, runs, payload, next, results, took, orphans>>

-----------------------------------------------------------------------------
Next ==
    \/ \E plugin \in Plugin : Install(plugin)
    \/ \E e \in Event, p \in Payload : Dispatch(e, p)
    \/ \E what \in Said \cup {"fails", "hangs"} : RunHook(what)
    \/ Finish

-----------------------------------------------------------------------------
(* Properties *)

\* any_deny: what a caller of dispatch would go by.
Denied == "Deny" \in ToSet(results)

\* One plugin's hooks after the other's: those up to upto[k] are of the first k.
Whole ==
    \E upto \in [0..Len(installed) -> 0..Len(hooks)] :
      /\ upto[0] = 0 /\ upto[Len(installed)] = Len(hooks)
      /\ \A k \in 1..Len(installed) :
            /\ upto[k - 1] <= upto[k]
            /\ SubSeq(hooks, upto[k - 1] + 1, upto[k]) = Brought(installed[k])

\* The dispatcher holds the hooks of the plugins that were installed, whole and
\* in order, none of one whose installation failed (plugin.rs:97-99).  A caller
\* can attribute each result to the hook it came from: every hook passed so far
\* that fires has one, and they come in the order of the hooks (hooks.rs:346-348);
\* and what is denied was denied by a hook that said so or by one that may block and
\* failed: a hook that must not block never stops anything by being slow or broken.
HooksAnswer ==
    /\ Whole
    /\ \A plugin \in ToSet(installed) : plugin.manifest = "ok" /\ plugin.context # "unreadable"
    /\ event # "none" =>
          /\ {t.hook : t \in ToSet(took)} = {i \in 1..(next - 1) : Fires(hooks[i])}
          /\ \A i, j \in DOMAIN took : i < j => took[i].hook < took[j].hook
          /\ Len(results) = Len(took)
          /\ Denied => \E t \in ToSet(took) : t.did = "Deny" \/
                          (t.did \in {"fails", "hangs"} /\ hooks[t.hook].can_block)
=============================================================================
