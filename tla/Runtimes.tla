------------------------------ MODULE Runtimes ------------------------------
(***************************************************************************)
(* The worker's runtimes: which of them a host has (main.go, gvisor.go,    *)
(* kata.go), how Docker and Flintlock make a sandbox, run a command in it  *)
(* and open a terminal (docker.go, flintlock.go), and the tmux session a   *)
(* terminal is attached to (terminal/tmux.go).                             *)
(*                                                                         *)
(* The calls of one sandbox follow one another: the consumer makes it, and *)
(* the multiplexer's mutex admits one starting terminal.  Any call may     *)
(* fail.  Left out: limits, capabilities, sizes and what is typed.         *)
(***************************************************************************)
EXTENDS Naturals, Sequences, FiniteSets

CONSTANTS
    Box,        \* sandboxes asked for
    MaxMishaps, \* failed calls
    MaxTerminals  \* how often the terminal of a sandbox is opened

ASSUME RuntimeAssumption == MaxMishaps \in Nat /\ MaxTerminals \in Nat

Runtime == {"docker", "gvisor", "kata", "flintlock"}

\* A container's image: the name as given, or with the registry before it.
ImageName == {"plain", "registry"}

VARIABLES
    host,     \* the runtimes this host has
    images,   \* image names Docker holds
    registry, \* CHALLENGE_IMAGE_REGISTRY is set and the name has no slash of its own
    hasTmux,  \* the challenge's image has tmux
    box,      \* each sandbox: its runtime, its life, the image it is of, and the
              \* Provision that makes it
    term,     \* the StartOrAttach of its terminal
    exec,     \* the Exec or ExecInteractive in progress: the step and what is open
    mishaps

runtimeVars == <<host, images, registry, hasTmux, box, term, exec, mishaps>>

NoBox == [pc |-> "off", runtime |-> "docker", life |-> "none", image |-> "plain", lost |-> FALSE]
NoTerm == [pc |-> "off", tmux |-> FALSE, attached |-> FALSE, hurt |-> FALSE, opened |-> 0]
NoCall == [kind |-> "none", at |-> 0, open |-> {}]

RuntimeTypeOK ==
    /\ host \subseteq Runtime /\ "docker" \in host
    /\ images \subseteq ImageName /\ registry \in BOOLEAN /\ hasTmux \in BOOLEAN
    /\ box \in [Box -> [pc: {"off", "local", "mirror", "pull", "fallback", "create", "start",
                             "vm", "made", "failed", "removed"},
                        runtime: Runtime, life: {"none", "created", "up"}, image: ImageName,
                        lost: BOOLEAN]]
    /\ term \in [Box -> [pc: {"off", "probe", "create", "attach", "shell", "open"},
                         tmux: BOOLEAN, attached: BOOLEAN, hurt: BOOLEAN,
                         opened: 0 .. MaxTerminals]]
    /\ exec \in [Box -> [kind: {"none", "exec", "attach", "shell"}, at: 0 .. 8,
                         open: SUBSET {"conn", "client", "sess"}]]
    /\ mishaps \in 0 .. MaxMishaps

RuntimeInit ==
    /\ host \in {h \in SUBSET Runtime : "docker" \in h}
    /\ images \in SUBSET ImageName /\ registry \in BOOLEAN /\ hasTmux \in BOOLEAN
    /\ box = [b \in Box |-> NoBox]
    /\ term = [b \in Box |-> NoTerm] /\ exec = [b \in Box |-> NoCall]
    /\ mishaps = 0

Mishap == mishaps < MaxMishaps /\ mishaps' = mishaps + 1

-----------------------------------------------------------------------------
(* Which runtime                                                           *)

\* runsc, or a Kata runtime, that Docker does not have is Docker's own instead; Flintlock
\* is registered only where its isolation is confirmed.
providers ==
    [p \in {"docker", "gvisor", "kata"} \cup (host \cap {"flintlock"}) |->
        IF p \in host THEN p ELSE "docker"]

\* A name that is not registered is the default's.
GetProviderByName(name) ==
    IF name \in DOMAIN providers THEN providers[name] ELSE providers["docker"]

AskSandbox(b) ==
    /\ box[b].pc = "off"
    /\ \E name \in Runtime :
         LET r == GetProviderByName(name) IN
         box' = [box EXCEPT ![b].runtime = r, ![b].pc = IF r = "flintlock" THEN "vm" ELSE "local"]
    /\ UNCHANGED <<host, images, registry, hasTmux, term, exec, mishaps>>

-----------------------------------------------------------------------------
(* DockerProvider.Provision                                                *)

To(b, pc) == box' = [box EXCEPT ![b].pc = pc]
Use(b, name) == box' = [box EXCEPT ![b].pc = "create", ![b].image = name]

\* ensureImage: the name as it is, then the registry's, in what Docker holds; an
\* inspection that fails counts as an absent image.
Local(b) ==
    /\ box[b].pc \in {"local", "mirror"}
    /\ LET name == IF box[b].pc = "local" THEN "plain" ELSE "registry"
           next == IF box[b].pc = "local" /\ registry THEN "mirror" ELSE "pull"
       IN  \/ /\ IF name \in images THEN Use(b, name) ELSE To(b, next)
              /\ UNCHANGED mishaps
           \/ Mishap /\ To(b, next)
    /\ UNCHANGED <<host, images, registry, hasTmux, term, exec>>

\* ... and is pulled: under the registry's name, and when that fails under its own.  A
\* stream that breaks is not noticed here.
PullImage(b) ==
    /\ box[b].pc \in {"pull", "fallback"}
    /\ LET name == IF registry /\ box[b].pc = "pull" THEN "registry" ELSE "plain"
       IN  \/ images' = images \cup {name} /\ Use(b, name) /\ UNCHANGED mishaps
           \/ Mishap /\ Use(b, name) /\ UNCHANGED images
           \/ Mishap /\ UNCHANGED images
              /\ To(b, IF name = "registry" THEN "fallback" ELSE "failed")
    /\ UNCHANGED <<host, registry, hasTmux, term, exec>>

\* The daemon makes the container; a lost answer leaves one that nobody knows.
CreateContainer(b) ==
    /\ box[b].pc = "create"
    /\ \/ /\ box[b].image \in images
          /\ box' = [box EXCEPT ![b].pc = "start", ![b].life = "created"]
          /\ UNCHANGED mishaps
       \/ box[b].image \notin images /\ To(b, "failed") /\ UNCHANGED mishaps
       \/ Mishap /\ To(b, "failed")
       \/ /\ box[b].image \in images /\ Mishap
          /\ box' = [box EXCEPT ![b].pc = "failed", ![b].life = "created", ![b].lost = TRUE]
    /\ UNCHANGED <<host, images, registry, hasTmux, term, exec>>

\* One that does not start is removed, best-effort.
StartContainer(b) ==
    /\ box[b].pc = "start"
    /\ \/ box' = [box EXCEPT ![b].pc = "made", ![b].life = "up"] /\ UNCHANGED mishaps
       \/ /\ Mishap
          /\ box' = [box EXCEPT ![b].pc = "failed", ![b].life = "none"]
       \/ /\ Mishap
          /\ box' = [box EXCEPT ![b].pc = "failed", ![b].lost = TRUE]
    /\ UNCHANGED <<host, images, registry, hasTmux, term, exec>>

(* FlintlockProvider.Provision: one call; an answer that is lost, or names *)
(* no UID, leaves a microVM that nobody knows.                             *)
CreateMicroVM(b) ==
    /\ box[b].pc = "vm"
    /\ \/ box' = [box EXCEPT ![b].pc = "made", ![b].life = "up"] /\ UNCHANGED mishaps
       \/ Mishap /\ To(b, "failed")
       \/ /\ Mishap
          /\ box' = [box EXCEPT ![b].pc = "failed", ![b].life = "up", ![b].lost = TRUE]
    /\ UNCHANGED <<host, images, registry, hasTmux, term, exec>>

\* Remove, whenever the session ends: under an open or a starting terminal too.
Remove(b) ==
    /\ box[b].pc = "made"
    /\ \/ box' = [box EXCEPT ![b].pc = "removed", ![b].life = "none"] /\ UNCHANGED mishaps
       \/ /\ Mishap
          /\ box' = [box EXCEPT ![b].pc = "removed", ![b].lost = TRUE]
    /\ UNCHANGED <<host, images, registry, hasTmux, term, exec>>

-----------------------------------------------------------------------------
(* One Exec, or one ExecInteractive                                        *)

\* The calls it makes, in their order.
CallsOf(runtime, kind) ==
    CASE runtime = "flintlock" /\ kind = "exec" -> <<"resolve", "client", "sess", "run">>
      [] runtime = "flintlock" /\ kind = "shell" ->
           <<"resolve", "client", "sess", "pty", "stdin", "stdout", "begin">>
      [] runtime = "flintlock" /\ kind = "attach" ->
           <<"resolve", "client", "sess", "stdout", "stdin", "pty", "begin">>
      [] kind = "exec" -> <<"prepare", "conn", "read", "inspect">>
      [] OTHER -> <<"prepare", "conn">>

Begin(b, kind) == exec' = [exec EXCEPT ![b] = [NoCall EXCEPT !.kind = kind, !.at = 1]]

Steps(b) == CallsOf(box[b].runtime, exec[b].kind)

\* The next call succeeds; those that open something name it.
Proceeds(b) ==
    /\ exec[b].kind # "none" /\ exec[b].at <= Len(Steps(b)) /\ box[b].life = "up"
    /\ exec' = [exec EXCEPT ![b].at = @ + 1,
                            ![b].open = @ \cup ({Steps(b)[exec[b].at]} \cap {"conn", "client", "sess"})]
    /\ UNCHANGED <<host, images, registry, hasTmux, box, term, mishaps>>

\* Mutant of ClosedBy: the session is closed and its client is not.
SessionOnly(b) == exec[b].open \ {"client"}

\* What a failing step closes before it returns: everything the steps before it opened.
ClosedBy(b) == exec[b].open

Returns(b, kept) == exec' = [exec EXCEPT ![b] = [NoCall EXCEPT !.open = kept]]

-----------------------------------------------------------------------------
(* StartOrAttach                                                           *)

CallBegins(b, pc) == term' = [term EXCEPT ![b].pc = pc]

StartTerminal(b) ==
    /\ box[b].pc = "made" /\ term[b].pc = "off" /\ term[b].opened < MaxTerminals
    /\ term' = [term EXCEPT ![b].pc = "probe", ![b].hurt = FALSE, ![b].attached = FALSE,
                            ![b].opened = @ + 1]
    /\ Begin(b, "exec")
    /\ UNCHANGED <<host, images, registry, hasTmux, box, mishaps>>

Over(b) == exec[b].kind # "none" /\ exec[b].at > Len(Steps(b))

\* has-session: 0 when the session is there.  A tmux that is not in the image is an exit
\* code too, and so the next command is tried.
SessionProbed(b) ==
    /\ Over(b) /\ term[b].pc = "probe"
    /\ LET next == IF term[b].tmux THEN "attach" ELSE "create" IN
       /\ CallBegins(b, next)
       /\ Begin(b, IF next = "attach" THEN "attach" ELSE "exec")
    /\ UNCHANGED <<host, images, registry, hasTmux, box, mishaps>>

\* new-session, detached: without tmux a plain shell.
SessionMade(b) ==
    /\ Over(b) /\ term[b].pc = "create"
    /\ term' = [term EXCEPT ![b].pc = IF hasTmux THEN "attach" ELSE "shell", ![b].tmux = hasTmux]
    /\ Begin(b, IF hasTmux THEN "attach" ELSE "shell")
    /\ UNCHANGED <<host, images, registry, hasTmux, box, mishaps>>

\* The terminal keeps what the call opened, until it is closed.
Opened(b) ==
    /\ Over(b) /\ term[b].pc \in {"attach", "shell"}
    /\ term' = [term EXCEPT ![b].pc = "open", ![b].attached = (term[b].pc = "attach")]
    /\ Returns(b, exec[b].open)
    /\ UNCHANGED <<host, images, registry, hasTmux, box, mishaps>>

\* A call fails.  Whichever command of tmux it was, a plain shell is tried; when that
\* fails there is no terminal.  A new-session whose answer is lost has made the session.
CallFails(b) ==
    /\ exec[b].kind # "none" /\ exec[b].at <= Len(Steps(b))
    /\ IF box[b].life = "up" THEN Mishap ELSE UNCHANGED mishaps
    /\ LET behind == exec[b].open \ ClosedBy(b)
           next == IF term[b].pc = "shell" THEN "off" ELSE "shell"
       IN  /\ \E made \in {FALSE, term[b].pc = "create" /\ hasTmux /\ exec[b].at = Len(Steps(b))} :
                term' = [term EXCEPT ![b].pc = next, ![b].hurt = TRUE, ![b].tmux = @ \/ made]
           /\ exec' = [exec EXCEPT ![b] = [kind |-> IF next = "off" THEN "none" ELSE "shell",
                                           at |-> IF next = "off" THEN 0 ELSE 1, open |-> behind]]
    /\ UNCHANGED <<host, images, registry, hasTmux, box>>

\* Close: the PTY's stream, and with SSH the session and the client.
HangUp(b) ==
    /\ term[b].pc = "open"
    /\ term' = [term EXCEPT ![b].pc = "off"]
    /\ Returns(b, {})
    /\ UNCHANGED <<host, images, registry, hasTmux, box, mishaps>>

RuntimeNext ==
    \E b \in Box :
      \/ AskSandbox(b) \/ Local(b) \/ PullImage(b) \/ CreateContainer(b) \/ StartContainer(b)
      \/ CreateMicroVM(b) \/ Remove(b)
      \/ StartTerminal(b) \/ Proceeds(b) \/ SessionProbed(b) \/ SessionMade(b) \/ Opened(b)
      \/ CallFails(b) \/ HangUp(b)

RuntimeSpec == RuntimeInit /\ [][RuntimeNext]_runtimeVars

-----------------------------------------------------------------------------
(* What the runtimes promise                                               *)

\* A sandbox that is there is being made, or its caller knows it; one that nobody knows
\* comes of a lost answer or of a removal that failed.
BoxIsKnown ==
    \A b \in Box : box[b].life # "none" => box[b].pc \in {"start", "made"} \/ box[b].lost

\* A connection to Docker or to a microVM is open for a terminal or for a call in
\* progress: whatever fails on the way, nothing stays open behind it.
ConnectionIsUsed ==
    \A b \in Box : exec[b].open # {} => term[b].pc = "open" \/ exec[b].kind # "none"

\* A user finds his shell again: a terminal of an image with tmux is attached to the
\* sandbox's session unless one of its calls failed.
ShellIsKept ==
    \A b \in Box : term[b].pc = "open" /\ hasTmux =>
       /\ ~term[b].hurt => term[b].attached
       /\ term[b].attached => term[b].tmux

\* A sandbox is run by a runtime this host has, and its image is the registry's only
\* where a registry is set.
RuntimeForCause ==
    \A b \in Box :
       /\ box[b].runtime \in host
       /\ box[b].life # "none" /\ box[b].image = "registry" => registry

RuntimesSound == RuntimeTypeOK /\ BoxIsKnown /\ ConnectionIsUsed /\ ShellIsKept /\ RuntimeForCause
=============================================================================
