------------------------------ MODULE Onboarding ------------------------------
(***************************************************************************)
(* One run of `homi setup` as a guide: the plan made from the tools found, *)
(* what is asked and shown before anything changes, the package steps, the *)
(* setup of HOMI's core and the choices behind it (onboarding.mjs, with    *)
(* bus-setup.mjs and model-setup.mjs).                                     *)
(*                                                                         *)
(* What the run changed is the set done: "packages", "core", "service",    *)
(* "profile", "bus", "model".  The setup of the core restores what it      *)
(* changed when it fails (HomiSetup.tla); the profile manager writes every *)
(* target or none, and refuses a target the user changed.  The texts of    *)
(* prompts and the syntax of flags, addresses, names and keys are left out *)
(* (an invalid one ends the run), and the two clients are one.             *)
(***************************************************************************)
EXTENDS Naturals, Sequences, SequencesExt

CONSTANTS Tool,         \* the dependencies a plan may name
          Order,        \* the order in which planOnboarding looks at them
          Before,       \* the tool whose own installer comes first, for each
          NoTool,       \* nothing comes first
          Invocations,  \* arguments and terminals of the runs
          MaxDrift      \* bound on changes other programs make meanwhile

ASSUME OnboardingAssumption ==
    /\ Tool = Range(Order) \cup (Range(Before) \ {NoTool}) /\ "python3" \in Range(Order)
    /\ Before \in [Tool -> Tool \cup {NoTool}] /\ MaxDrift \in Nat

VARIABLES opt,      \* the options: arguments, then answers
          stage,    \* where the run is
          have,     \* the tools a probe finds in a usable version
          edited,   \* the user changed a file the profile manages
          todo,     \* plan.steps still to be taken
          snap,     \* plan.snapshot
          shown,    \* what the user has been shown: "plan", "profile"
          agreed,   \* what had been shown when the run was last agreed to
          done,     \* what the run has changed
          said,     \* how it reports its end
          drift

obVars == <<opt, stage, have, edited, todo, snap, shown, agreed, done, said, drift>>

Needed(o) == {"python3"} \cup (IF o.profile \/ o.clients = "chosen" THEN Tool \cap {"tmux"} ELSE {})

ObInit ==
    /\ opt \in Invocations /\ stage = "ask" /\ have \in SUBSET Tool /\ edited \in BOOLEAN
    /\ todo = <<>> /\ snap = {} /\ shown = {} /\ agreed = {} /\ done = {} /\ said = "" /\ drift = 0

world == <<have, edited, drift>>
To(s) == stage' = s /\ UNCHANGED said
Ends(word) == stage' = "end" /\ said' = word
\* What a step of the run that neither shows nor changes anything leaves alone.
Still == UNCHANGED <<opt, have, edited, todo, snap, shown, agreed, done, drift>>
-----------------------------------------------------------------------------
(* Questions and plan *)

AnswersTo(o) == \* of a guided run; login is asked for only without a model
    {[o EXCEPT !.clients = IF @ = "open" THEN (IF c THEN "chosen" ELSE "none") ELSE @,
               !.profile = @ \/ p, !.service = IF o.noService THEN FALSE ELSE @ \/ s,
               !.model = @ \/ (m /\ (c \/ o.clients = "chosen")),
               !.login = @ \/ (l /\ ~o.model /\ ~m /\ (c \/ o.clients = "chosen")),
               !.bus = IF @ = "keep" THEN b ELSE @] :
        c \in BOOLEAN, p \in BOOLEAN, s \in BOOLEAN, m \in BOOLEAN, l \in BOOLEAN,
        b \in {"keep", "use", "invite"}}
Guided(o) == o.guided \/ (o.model /\ o.clients = "open" /\ o.tty)

Ask == \* a prompt that is closed cancels
    /\ stage = "ask" /\ UNCHANGED <<have, edited, todo, snap, shown, agreed, done, drift>>
    /\ \/ Guided(opt) /\ opt.tty /\ ~opt.dryRun /\ Ends("cancelled") /\ UNCHANGED opt
       \/ \E o \in IF Guided(opt) /\ opt.tty /\ ~opt.dryRun THEN AnswersTo(opt) ELSE {opt} :
              opt' = [o EXCEPT !.installMissing = @ \/ Guided(opt)] /\ To("plan")

\* add: a step is planned once.
Add(steps, t) == IF t \in Range(steps) \cup {NoTool} THEN steps ELSE Append(steps, t)
Steps(missing) ==
    FoldLeft(LAMBDA steps, t : IF t \notin missing THEN steps
                               ELSE Add(IF Before[t] \in have THEN steps ELSE Add(steps, Before[t]), t),
             <<>>, Order)

Refuses(o, missing) == \* the conditions under which executeOnboarding does not begin
    \/ missing # {} /\ ~o.installMissing
    \/ o.clients = "open"
    \/ ~o.tty /\ (~o.yes \/ o.login \/ o.model)
Plan ==
    /\ stage = "plan" /\ UNCHANGED <<opt, have, edited, agreed, done, drift>>
    /\ shown' = shown \cup {"plan"} /\ snap' = have
    /\ LET missing == Needed(opt) \ have IN
       /\ todo' = Steps(missing)
       /\ \/ opt.dryRun /\ Ends("dry run")
          \/ ~opt.dryRun /\ Refuses(opt, missing) /\ Ends("refused")
          \/ \* no recipe here, or there in a version that is not replaced
             ~opt.dryRun /\ missing # {} /\ Ends("refused")
          \/ ~opt.dryRun /\ ~Refuses(opt, missing) /\ To("model")

PrepareModel == \* name, address, model and key; empty cancels
    /\ stage = "model" /\ Still
    /\ \/ ~opt.model /\ To("bus")
       \/ opt.model /\ \/ To("bus")
                       \/ \E word \in {"cancelled", "refused"} : Ends(word)
PrepareBus ==
    /\ stage = "bus" /\ Still
    /\ \/ opt.bus # "invite" /\ To("preview")
       \/ opt.bus = "invite" /\ \/ To("preview")
                                \/ \E word \in {"cancelled", "refused"} : Ends(word)

Previewed == opt.profile => "profile" \in shown
\* profile(["preview"]) as the tools and files are now
Preview(next) ==
    /\ UNCHANGED <<opt, have, edited, todo, snap, agreed, done, drift>>
    /\ \/ "python3" \notin have /\ Ends("no python") /\ UNCHANGED shown
       \/ "python3" \in have /\ edited /\ Ends("conflict") /\ UNCHANGED shown
       \/ "python3" \in have /\ ~edited /\ shown' = shown \cup {"profile"} /\ To(next)
FirstPreview ==
    /\ stage = "preview"
    /\ \/ opt.profile /\ "python3" \in snap /\ Preview("consent")
       \/ ~(opt.profile /\ "python3" \in snap) /\ To("consent") /\ Still

Consent(from, next) ==
    /\ stage = from /\ UNCHANGED <<opt, have, edited, todo, snap, shown, done, drift>>
    /\ \/ agreed' = shown /\ To(next)
       \/ ~opt.yes /\ Ends("cancelled") /\ UNCHANGED agreed
FirstConsent == Consent("consent", "install")
-----------------------------------------------------------------------------
(* Packages *)

Install ==
    /\ stage = "install" /\ todo # <<>>
    /\ UNCHANGED <<opt, edited, snap, shown, agreed, drift>>
    /\ LET t == Head(todo) IN
       \/ \* there meanwhile
          t \in have /\ todo' = Tail(todo) /\ To(stage) /\ UNCHANGED <<have, done>>
       \/ t \notin have /\ Ends("install failed") /\ UNCHANGED <<have, done, todo>>
       \/ \* installed, and perhaps not where a probe finds it
          /\ t \notin have /\ done' = done \cup {"packages"} /\ todo' = Tail(todo) /\ To(stage)
          /\ have' \in {have, have \cup {t}}

Verify ==
    /\ stage = "install" /\ todo = <<>> /\ Still
    /\ \/ ~(Needed(opt) \subseteq have) /\ Ends("unverified")
       \/ Needed(opt) \subseteq have /\ To(IF Previewed THEN "setup" ELSE "preview2")

\* Mutant: the first consent stands for what is shown after it.
UnaskedPreview == stage = "preview2" /\ Preview("setup")
SecondPreview == stage = "preview2" /\ Preview("consent2")
SecondConsent == Consent("consent2", "setup")
-----------------------------------------------------------------------------
(* HOMI's own state *)

Setup ==
    /\ stage = "setup" /\ UNCHANGED <<opt, have, edited, todo, snap, shown, agreed, drift>>
    /\ \/ Ends("setup failed") /\ UNCHANGED done
       \/ /\ done' = done \cup {"core"} \cup (IF opt.service THEN {"service"} ELSE {})
          /\ To("profile")

Change(what, next) == done' = done \cup {what} /\ To(next)
Beside == UNCHANGED <<opt, have, edited, todo, snap, shown, agreed, drift>>
InstallProfile ==
    /\ stage = "profile" /\ Beside
    /\ \/ ~opt.profile /\ To("applyBus") /\ UNCHANGED done
       \/ opt.profile /\ "python3" \in have /\ ~edited /\ Change("profile", "applyBus")
       \/ opt.profile /\ Ends("profile failed") /\ UNCHANGED done

\* Mutant: a choice that could not be applied is left for later.
LenientBus ==
    /\ stage = "applyBus" /\ Beside
    /\ \/ opt.bus = "keep" /\ To("applyModel") /\ UNCHANGED done
       \/ opt.bus # "keep" /\ Change("bus", "applyModel")
       \/ opt.bus # "keep" /\ To("applyModel") /\ UNCHANGED done
ApplyBus == \* a command that fails may have selected or enrolled all the same
    /\ stage = "applyBus" /\ Beside
    /\ \/ opt.bus = "keep" /\ To("applyModel") /\ UNCHANGED done
       \/ opt.bus # "keep" /\ Change("bus", "applyModel")
       \/ opt.bus # "keep" /\ done' \in {done, done \cup {"bus"}} /\ Ends("bus failed")
ApplyModel ==
    /\ stage = "applyModel" /\ Beside
    /\ \/ ~opt.model /\ To("login") /\ UNCHANGED done
       \/ opt.model /\ Change("model", "login")
       \/ opt.model /\ done' \in {done, done \cup {"model"}} /\ Ends("model failed")

Login == \* the credentials are the provider's
    /\ stage = "login" /\ Still
    /\ \/ Ends("complete")
       \/ opt.login /\ Ends("login failed")

Drifts == \* other installers, and the user's editor
    /\ stage # "end" /\ drift < MaxDrift /\ drift' = drift + 1
    /\ \/ \E t \in Tool : /\ have' = IF t \in have THEN have \ {t} ELSE have \cup {t}
                          /\ UNCHANGED edited
       \/ edited' = ~edited /\ UNCHANGED have
    /\ UNCHANGED <<opt, stage, todo, snap, shown, agreed, done, said>>

ObNext == \/ Ask \/ Plan \/ PrepareModel \/ PrepareBus \/ FirstPreview \/ FirstConsent \/ Install
          \/ Verify \/ SecondPreview \/ SecondConsent \/ Setup \/ InstallProfile \/ ApplyBus
          \/ ApplyModel \/ Login \/ Drifts
-----------------------------------------------------------------------------
(* What a run says at its end is what it did: nothing before the consent,   *)
(* no HOMI state before the dependencies and the profile were looked at,    *)
(* the core kept by whatever fails behind it, and everything chosen when it *)
(* says complete (onboarding.mjs:234, 267, 283, 294, 303, 311, 321).        *)
Chosen == {"core"} \cup (IF opt.service THEN {"service"} ELSE {}) \cup (IF opt.model THEN {"model"} ELSE {})
          \cup (IF opt.profile THEN {"profile"} ELSE {}) \cup (IF opt.bus # "keep" THEN {"bus"} ELSE {})
ReportTrue ==
    /\ said \in {"dry run", "refused"} => done = {}
    /\ said \in {"cancelled", "no python", "conflict", "unverified", "install failed", "setup failed"} =>
           done \subseteq {"packages"}
    /\ said \in {"profile failed", "bus failed", "model failed", "login failed"} => "core" \in done
    /\ said = "complete" => Chosen \subseteq done

(* Nothing is changed that was not shown before the run was last agreed to, *)
(* the profile's files included when Python came only with the packages     *)
(* (onboarding.mjs:260-273, 284-287).                                       *)
Consented == /\ done # {} => "plan" \in agreed
             /\ "profile" \in done => "profile" \in agreed

ObSpec == ObInit /\ [][ObNext]_obVars
=============================================================================
