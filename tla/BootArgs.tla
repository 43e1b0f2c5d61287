------------------------------ MODULE BootArgs ------------------------------
(***************************************************************************)
(* What becomes of the kernel's command line (init/main.c:188-219,         *)
(* 488-603, 830-871, 909-919, 1016-1019, 1353-1366): options nobody knows  *)
(* are collected in argv_init and envp_init, two arrays of fixed size that *)
(* init is started with.  A full array is noticed at once, but the panic   *)
(* has to wait until there is a console.                                   *)
(*                                                                         *)
(* An option is what parse_args delivers: its name, and its value or NULL. *)
(* Which options the kernel knows is a matter of their names.              *)
(***************************************************************************)
EXTENDS Integers, Sequences, FiniteSets, SequencesExt

CONSTANTS
    Arguments,       \* names that nobody knows, given without a value
    Variables, Values, \* names that nobody knows, given with a value
    Known,           \* names of sysctl aliases, obsolete and module parameters
    MAX_INIT_ARGS, MAX_INIT_ENVS,
    MaxOptions,      \* bound on the length of a command line
    NULL

VARIABLES
    at,              \* what start_kernel, and then kernel_init, is doing
    argv_init, envp_init,
    panic_later,     \* NULL or the array that was full
    overrun,         \* a loop looked behind the end of its array
    args,            \* history: the arguments since the last init= or rdinit=
    before,          \* history: those that came before it
    env,             \* history: the last value given to each variable
    left             \* options that may still come

vars == <<at, argv_init, envp_init, panic_later, overrun, args, before, env, left>>

Args == 0 .. MAX_INIT_ARGS + 1
Envs == 0 .. MAX_INIT_ENVS + 1

Opt(param, val) == [param |-> param, val |-> val]
Options ==
    {Opt(a, NULL) : a \in Arguments} \cup {Opt(v, x) : v \in Variables, x \in Values}
    \cup {Opt(k, x) : k \in Known \cup {"init", "rdinit"}, x \in Values}
Preset == {Opt("HOME", "/"), Opt("TERM", "linux")}

Init ==
    /\ at = "booting"
    /\ argv_init = [i \in Args |-> IF i = 0 THEN Opt("init", NULL) ELSE NULL]
    /\ envp_init = [i \in Envs |-> CASE i = 0 -> Opt("HOME", "/")
                                     [] i = 1 -> Opt("TERM", "linux")
                                     [] OTHER -> NULL]
    /\ panic_later = NULL /\ overrun = FALSE
    /\ args = <<>> /\ before = {} /\ env = Preset
    /\ left = MaxOptions

-----------------------------------------------------------------------------
\* Where a loop "for (i = 0; a[i]; i++)" ends: at the first NULL, or behind
\* the array.
FirstNull(a) ==
    LET free == {i \in DOMAIN a : a[i] = NULL}
    IN IF free = {} THEN Cardinality(DOMAIN a) ELSE CHOOSE i \in free : \A j \in free : i <= j

Ends(a) == \E i \in DOMAIN a : a[i] = NULL

\* The same loop where it also stops at an entry of the same name (strncmp of
\* the name and its '=').
SameName(p) ==
    LET same == {i \in Envs : envp_init[i] # NULL /\ envp_init[i].param = p.param}
    IN IF same = {} THEN FirstNull(envp_init)
       ELSE LET i == CHOOSE i \in same : \A j \in same : i <= j
            IN IF i < FirstNull(envp_init) THEN i ELSE FirstNull(envp_init)

Taken == left > 0 /\ left' = left - 1
Given(p) == args' = Append(args, p)
NoArg == UNCHANGED <<args, before>>
NoEnv == UNCHANGED <<envp_init, env>>

\* "Anything after -- gets handed straight to init."
set_init_arg(p) ==
    /\ at \in {"dashes", "extra"} /\ Taken
    /\ IF panic_later # NULL
       THEN UNCHANGED <<argv_init, panic_later>> /\ NoArg
       ELSE LET i == FirstNull(argv_init) IN
            IF i > MAX_INIT_ARGS
            THEN panic_later' = "init" /\ UNCHANGED argv_init /\ NoArg
            ELSE /\ argv_init' = [argv_init EXCEPT ![i] = p]
                 /\ Given(p) /\ UNCHANGED <<panic_later, before>>
    /\ NoEnv /\ UNCHANGED <<at, overrun>>

\* An option the kernel does not know: a variable if it has a value.  A full
\* array is noticed, and one entry more is written all the same.
Environment(p) ==
    LET i == SameName(p) IN
    /\ p.val # NULL
    /\ panic_later' = IF i >= MAX_INIT_ENVS /\ envp_init[MAX_INIT_ENVS] # NULL
                      THEN "env" ELSE panic_later
    /\ overrun' = (overrun \/ (i > MAX_INIT_ENVS + 1))
    /\ envp_init' = IF i \in Envs THEN [envp_init EXCEPT ![i] = p] ELSE envp_init
    /\ env' = {e \in env : e.param # p.param} \cup {p}
    /\ UNCHANGED argv_init /\ NoArg

Argument(p) ==
    LET i == FirstNull(argv_init) IN
    /\ p.val = NULL
    /\ panic_later' = IF i > MAX_INIT_ARGS THEN "init" ELSE panic_later
    /\ overrun' = (overrun \/ (i > MAX_INIT_ARGS + 1))
    /\ argv_init' = IF i \in Args THEN [argv_init EXCEPT ![i] = p] ELSE argv_init
    /\ Given(p) /\ NoEnv /\ UNCHANGED before

\* init= and rdinit= (init_setup, rdinit_setup): "we ignore all arguments
\* entered _before_ init=..."
init_setup ==
    /\ argv_init' = [i \in Args |-> IF i \in 1 .. MAX_INIT_ARGS - 1 THEN NULL ELSE argv_init[i]]
    /\ args' = <<>> /\ before' = before \cup Range(args)
    /\ NoEnv /\ UNCHANGED <<panic_later, overrun>>

Setups == {"init", "rdinit"}

\* A sysctl alias, an obsolete or early parameter, or one of a module.
Consumed(p) == p.param \in Known
Ignored == UNCHANGED <<argv_init, panic_later, overrun>> /\ NoArg /\ NoEnv

\* Faulty: goes on collecting when an array is full.
unknown_bootoptionHeedless(p) ==
    /\ at = "booting" /\ Taken
    /\ \/ p.param \in Setups /\ init_setup
       \/ Consumed(p) /\ Ignored
       \/ p.param \notin Setups /\ ~Consumed(p) /\ (Environment(p) \/ Argument(p))
    /\ UNCHANGED at

\* Known to a __setup handler (obsolete_checksetup), to sysctl or to a module,
\* or else handed to init, unless an array is full.
unknown_bootoption(p) ==
    /\ at = "booting" /\ Taken
    /\ \/ p.param \in Setups /\ init_setup
       \/ (Consumed(p) \/ (p.param \notin Setups /\ panic_later # NULL)) /\ Ignored
       \/ /\ p.param \notin Setups /\ ~Consumed(p) /\ panic_later = NULL
          /\ Environment(p) \/ Argument(p)
    /\ UNCHANGED at

\* print_unknown_bootoptions goes through both arrays, unless one was full;
\* then come the options behind "--", if any.
print_unknown_bootoptions ==
    /\ at = "booting"
    /\ overrun' = (overrun \/ (panic_later = NULL /\ ~(Ends(argv_init) /\ Ends(envp_init))))
    /\ at' = "dashes"
    /\ UNCHANGED <<argv_init, envp_init, panic_later, args, before, env, left>>

\* The arguments for init of the boot configuration come last.
ExtraInitArgs ==
    /\ at = "dashes" /\ at' = "extra"
    /\ UNCHANGED <<argv_init, envp_init, panic_later, overrun, args, before, env, left>>

\* There is a console now: time to panic.
console_init ==
    /\ at = "extra"
    /\ at' = IF panic_later # NULL THEN "panic" ELSE "kernel_init"
    /\ UNCHANGED <<argv_init, envp_init, panic_later, overrun, args, before, env, left>>

\* kernel_init tries programs until one runs: each time argv_init[0] is the
\* program, and both arrays are gone through.
run_init_process ==
    /\ at = "kernel_init"
    /\ overrun' = (overrun \/ ~(Ends(argv_init) /\ Ends(envp_init)))
    /\ argv_init' = [argv_init EXCEPT ![0] = Opt("program", NULL)]
    /\ at' = "exec"
    /\ UNCHANGED <<envp_init, panic_later, args, before, env, left>>

Next ==
    \/ \E p \in Options : unknown_bootoption(p) \/ set_init_arg(p)
    \/ print_unknown_bootoptions \/ ExtraInitArgs \/ console_init \/ run_init_process

Spec == Init /\ [][Next]_vars

-----------------------------------------------------------------------------
(***************************************************************************)
(* Properties.                                                             *)
(***************************************************************************)

\* What init is started with: the arguments, up to the first NULL.
Passed(a) == [k \in 1 .. FirstNull(a) - 1 |-> a[k]]

\* unknown_bootoption, set_init_arg and init_setup: no loop over the two
\* arrays leaves them, full as they may be, and an init that is started has
\* every argument given since init=, in order, and every variable as it was
\* given last.
InitGetsItsOptions ==
    /\ ~overrun
    /\ at = "exec" =>
         /\ IsPrefix(args, Passed(argv_init))
         /\ {envp_init[i] : i \in 0 .. FirstNull(envp_init) - 1} = env

\* init/main.c:585: "So we ignore all arguments entered _before_ init=...".
EarlierIgnored == at = "exec" => Range(Passed(argv_init)) \cap (before \ Range(args)) = {}

=============================================================================
