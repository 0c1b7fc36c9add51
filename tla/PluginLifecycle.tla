--------------------------- MODULE PluginLifecycle ---------------------------
(***************************************************************************)
(* Capability plugins: tasks/plugin_acquisition.py (the registry and the   *)
(* generator's results), tasks/plugin_runtime.py (the leaf executor),      *)
(* tasks/plugin_worker.py (the child process that runs the plugin) and the *)
(* scheduler's _admit_leaf that calls the first before the second.         *)
(*                                                                         *)
(* One leaf at a time goes through admission, acquisition and execution,   *)
(* while other programs may rewrite the plugin directories between any two *)
(* of its steps and the program may die.  A digest is the content it is    *)
(* the digest of.  A plugin directory holds its code and the capabilities  *)
(* its manifest declares; README.md is left out.                           *)
(***************************************************************************)
EXTENDS Naturals, FiniteSets

CONSTANTS
    Capability,      \* names of capabilities
    PluginId,        \* names of plugin directories under output_root
    Code,            \* contents of plugin.py
    BuiltIn,         \* capabilities the registry knows without a plugin
    Families,        \* capabilities with a family (capability_families)
    Invocations,     \* capabilities the invocation policy admits
    Strict,          \* those whose invocation has requires_os_sandbox
    MaxEdits         \* bound: rewrites by other programs

ASSUME PluginAssumption ==
    /\ BuiltIn \cup Families \subseteq Capability
    /\ Strict \subseteq Invocations
    /\ Invocations \subseteq Capability
    /\ IsFiniteSet(Capability)
    /\ MaxEdits \in Nat

Content == [code : Code, declares : SUBSET Capability]
Missing == [missing |-> TRUE]       \* no directory, no descriptor, nothing chosen

VARIABLES
    files,       \* the plugin directories
    generated,   \* the registry in memory
    stored,      \* the registry file
    leaf,        \* the leaf being admitted or executed
    vetted,      \* history: <<capability, code>> hashed by an acquisition
    lastRun,     \* history: the run the current leaf made, if any
    edits        \* rewrites so far

pluginVars == <<files, generated, stored, leaf, vetted, lastRun, edits>>

NoRun == [ran |-> FALSE]
NoLeaf == [at |-> "none", needs |-> {}, todo |-> {}, capability |-> Missing,
           plugin |-> Missing, descriptor |-> Missing, backend |-> "none",
           result |-> "none"]

\* PersistentCapabilityRegistry.get: the descriptor, if the files still match
Current(c) ==
    /\ generated[c] # Missing
    /\ files[generated[c].plugin] = generated[c].content

\* PersistentCapabilityRegistry.resolve, for one capability
Known(c) == c \in BuiltIn \/ Current(c)

PluginInit ==
    /\ files = [p \in PluginId |-> Missing]
    /\ generated = [c \in Capability |-> Missing]
    /\ stored = generated
    /\ leaf = NoLeaf
    /\ vetted = {}
    /\ lastRun = NoRun
    /\ edits = 0

\* execute() goes on to look for a descriptor
Executable == Cardinality(leaf.needs) = 1 /\ leaf.needs \subseteq Invocations

Goto(at) == leaf' = [leaf EXCEPT !.at = at]
End(result) == leaf' = [leaf EXCEPT !.at = "ended", !.result = result]
\* acquire() of capability c returned or raised: the loop takes the next one
Acquired(c) ==
    leaf' = [leaf EXCEPT !.at = "acquire", !.todo = @ \ {c}]

---------------------------------------------------------------------------
\* _admit_leaf: first resolution, acquisition of what is missing, second one

Admit(needs) ==
    /\ leaf.at \in {"none", "ended"}
    /\ LET missing == {c \in needs : ~ Known(c)} IN
        leaf' = [NoLeaf EXCEPT !.at = IF missing = {} THEN "execute" ELSE "acquire",
                               !.needs = needs, !.todo = missing]
    /\ lastRun' = NoRun
    /\ UNCHANGED <<files, generated, stored, vetted, edits>>

\* acquire() when the capability is current again, or has no family
NothingToGenerate(c) ==
    /\ leaf.at = "acquire"
    /\ c \in leaf.todo
    /\ Current(c) \/ c \notin Families
    /\ Acquired(c)
    /\ UNCHANGED <<files, generated, stored, vetted, lastRun, edits>>

Generates(c) ==
    /\ leaf.at = "acquire"
    /\ c \in leaf.todo \cap Families
    /\ ~ Current(c)
    /\ UNCHANGED <<generated, stored, vetted, lastRun, edits>>

\* the generator writes a plugin directory and names it
Generate(c, p, content) ==
    /\ Generates(c)
    /\ files' = [files EXCEPT ![p] = content]
    /\ leaf' = [leaf EXCEPT !.at = "validate", !.capability = c, !.plugin = p]

\* it fails, is killed, or says something else than the policy; whatever it
\* wrote stays
GeneratorFails(c, p, content) ==
    /\ Generates(c)
    /\ files' \in {files, [files EXCEPT ![p] = content]}
    /\ Acquired(c)

\* _validate_result up to the manifest, which it reads for its own
CheckManifest ==
    /\ leaf.at = "validate"
    /\ LET tree == files[leaf.plugin] IN
        IF tree # Missing /\ leaf.capability \in tree.declares
        THEN Goto("hash")
        ELSE Acquired(leaf.capability)
    /\ UNCHANGED <<files, generated, stored, vetted, lastRun, edits>>

RegisteredAnew(c, d) ==
    /\ generated' = [generated EXCEPT ![c] = d]
    /\ stored' \in {stored, generated'}

\* the registration: an existing descriptor is never replaced, and memory
\* is written before the file, whose replacement may raise
Registered(c, d) ==
    IF generated[c] \notin {Missing, d}
    THEN UNCHANGED <<generated, stored>>
    ELSE /\ generated' = [generated EXCEPT ![c] = d]
         /\ stored' \in {stored, generated'}

\* the end of _validate_result hashes the files as they are now
Register ==
    /\ leaf.at = "hash"
    /\ LET c == leaf.capability
           tree == files[leaf.plugin] IN
        /\ IF tree = Missing
           THEN UNCHANGED <<generated, stored, vetted>>
           ELSE /\ vetted' = vetted \cup {<<c, tree.code>>}
                /\ Registered(c, [plugin |-> leaf.plugin, content |-> tree])
        /\ Acquired(c)
    /\ UNCHANGED <<files, lastRun, edits>>

ResolveAgain ==
    /\ leaf.at = "acquire"
    /\ leaf.todo = {}
    /\ IF \A c \in leaf.needs : Known(c) THEN Goto("execute") ELSE End("blocked")
    /\ UNCHANGED <<files, generated, stored, vetted, lastRun, edits>>

\* a file disappears between is_file() and read_bytes(): resolve() raises,
\* or get() does, in acquire() or in execute()
ReadRaises ==
    /\ \/ leaf.at = "acquire" /\ leaf.todo = {} /\ End("blocked")
       \/ leaf.at = "execute" /\ Executable /\ End("failed")
    /\ UNCHANGED <<files, generated, stored, vetted, lastRun, edits>>

---------------------------------------------------------------------------
\* GeneratedPluginLeafExecutor.execute and the worker

\* refusals before anything is started
Refuse ==
    /\ leaf.at = "execute"
    /\ Executable => \E c \in leaf.needs : ~ Current(c)
    /\ End("blocked")
    /\ UNCHANGED <<files, generated, stored, vetted, lastRun, edits>>

\* the descriptor is read once; what follows uses it although files may change
Launch(c) ==
    /\ leaf.at = "execute"
    /\ Executable
    /\ c \in leaf.needs
    /\ Current(c)
    /\ leaf' = [leaf EXCEPT !.at = IF c \in Strict THEN "probe" ELSE "worker",
                            !.capability = c, !.descriptor = generated[c],
                            !.backend = "process_only"]
    /\ UNCHANGED <<files, generated, stored, vetted, lastRun, edits>>

\* no launcher, or the probe fails: blocked, never run in a bare process
Probe(available) ==
    /\ leaf.at = "probe"
    /\ IF available
       THEN leaf' = [leaf EXCEPT !.at = "worker", !.backend = "sandbox"]
       ELSE End("blocked")
    /\ UNCHANGED <<files, generated, stored, vetted, lastRun, edits>>

\* what the supervised process returns for a run, or for none
Process == [timed_out : BOOLEAN, truncated : BOOLEAN,
            envelope : {"none", "error", "ok"}, success : BOOLEAN]

\* _interpret: success stands for every check of the output
Interpreted(process) ==
    IF process.timed_out THEN "blocked"
    ELSE IF ~ process.truncated /\ process.envelope = "ok" /\ process.success
         THEN "completed" ELSE "failed"

GenuineUnchecked(d) == files[d.plugin] # Missing

\* the worker reads plugin.py again and compares the digest it was given
Genuine(d) ==
    /\ files[d.plugin] # Missing
    /\ files[d.plugin].code = d.content.code

RunPlugin(process) ==
    /\ leaf.at = "worker"
    /\ Genuine(leaf.descriptor)
    /\ lastRun' = [ran |-> TRUE, capability |-> leaf.capability,
                   code |-> files[leaf.descriptor.plugin].code,
                   backend |-> leaf.backend]
    /\ End(Interpreted(process))
    /\ UNCHANGED <<files, generated, stored, vetted, edits>>

\* a mismatch, an unreadable file, or a time-out before the plugin is loaded
WorkerStops(process) ==
    /\ leaf.at = "worker"
    /\ process.envelope # "ok"
    /\ ~ Genuine(leaf.descriptor) \/ process.timed_out
    /\ End(Interpreted(process))
    /\ UNCHANGED <<files, generated, stored, vetted, lastRun, edits>>

\* the directory is gone, the command line is refused, or the process cannot
\* be started or registered: the exception ends the leaf (_execute_one)
ToolRaises ==
    /\ leaf.at \in {"probe", "worker"}
    /\ End("failed")
    /\ UNCHANGED <<files, generated, stored, vetted, lastRun, edits>>

---------------------------------------------------------------------------

\* another program rewrites or removes a plugin directory
Edit(p, content) ==
    /\ edits < MaxEdits
    /\ edits' = edits + 1
    /\ files' = [files EXCEPT ![p] = content]
    /\ UNCHANGED <<generated, stored, leaf, vetted, lastRun>>

\* the program dies; the next one loads the registry file
Restart ==
    /\ generated' = stored
    /\ leaf' = NoLeaf
    /\ lastRun' = NoRun
    /\ UNCHANGED <<files, stored, vetted, edits>>

PluginNext ==
    \/ \E needs \in SUBSET Capability : Admit(needs)
    \/ \E c \in Capability : NothingToGenerate(c) \/ Launch(c)
    \/ \E c \in Capability, p \in PluginId, content \in Content :
            Generate(c, p, content) \/ GeneratorFails(c, p, content)
    \/ CheckManifest
    \/ Register
    \/ ResolveAgain
    \/ ReadRaises
    \/ ToolRaises
    \/ Refuse
    \/ \E available \in BOOLEAN : Probe(available)
    \/ \E process \in Process : RunPlugin(process) \/ WorkerStops(process)
    \/ \E p \in PluginId, content \in Content \cup {Missing} : Edit(p, content)
    \/ Restart

PluginSpec == PluginInit /\ [][PluginNext]_pluginVars

---------------------------------------------------------------------------

\* Whatever other programs do to the directories, and whichever steps it
\* happens between, the code a worker loads for a capability is code an
\* acquisition of that capability has hashed; the policy admits the
\* capability; one that asks for a sandbox never runs in a bare process; and
\* a leaf reported completed did run (plugin_runtime.py:122-199,
\* plugin_worker.py:34-37)
RunsAreAdmitted ==
    /\ lastRun.ran =>
        /\ <<lastRun.capability, lastRun.code>> \in vetted
        /\ lastRun.capability \in Invocations
        /\ lastRun.capability \in Strict => lastRun.backend = "sandbox"
    /\ leaf.result = "completed" =>
        lastRun.ran /\ leaf.needs = {lastRun.capability}

\* Once the registry file names a plugin and its digests for a capability, no
\* later acquisition, failed save, edit or restart changes that entry
\* (plugin_acquisition.py:64-74)
DescriptorsStandStep ==
    \A c \in Capability : stored[c] # Missing => stored'[c] = stored[c]
DescriptorsStand == [][DescriptorsStandStep]_pluginVars

=============================================================================
