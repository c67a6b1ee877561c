-------------------------------- MODULE Startup --------------------------------
(***************************************************************************)
(* How the engine starts (core/world.cpp Setup, core/config.cpp): the      *)
(* cloud and the VM storage are made, then the servers' specifications are *)
(* read and the data centers with their servers are made, one node of the  *)
(* configuration at a time.  A failed CHECK is a runtime_error, which      *)
(* main() reports; a name that is taken is a logic_error, which nobody     *)
(* catches.                                                                *)
(*                                                                         *)
(* A node that misses a field, or has one of the wrong shape, is Malformed;*)
(* a file that cannot be read as a sequence is Malformed as a whole.  A    *)
(* name is written [base, serial] when it ends in "-" and a number, with   *)
(* NoSerial when it does not: SPEC-SERIAL is then [base |-> SPEC,          *)
(* serial |-> SERIAL], and two names are equal when the strings are.       *)
(***************************************************************************)
EXTENDS Integers, Sequences, FiniteSets

CONSTANTS
  Configs,   \* the configurations: [specs, centers]
  Malformed,
  Width      \* bits of servers_count, of the loop counter and of the serials

NoSerial == -1

Modulus == 2 ^ Width

(* ++ on a uint32_t. *)
Increment(n) == (n + 1) % Modulus

Elements(seq) == {seq[k] : k \in DOMAIN seq}

IsSequence(node) == node \in Seq(Elements(node))

(* What YAML makes of a file is a sequence or not, and a count fits its    *)
(* type.                                                                   *)
ASSUME StartupAssumption ==
  /\ Modulus \in Nat \ {0, 1}
  /\ Malformed # << >>
  /\ \A c \in Configs :
       /\ c.specs # Malformed => IsSequence(c.specs) /\ Malformed \notin Seq(Elements(c.specs))
       /\ c.centers # Malformed => IsSequence(c.centers)
       /\ c.centers # Malformed =>
            \A d \in Elements(c.centers) \ {Malformed} :
              /\ IsSequence(d.servers)
              /\ \A e \in Elements(d.servers) \ {Malformed} : e.count \in 0..(Modulus - 1)

VARIABLES
  config,      \* the configuration being read
  phase,       \* which loop of the parser runs, or how startup has ended
  specs,       \* the nodes ParseSpecs has not read yet
  centers,     \* the nodes ParseCloud has not read yet
  entries,     \* the "servers" nodes of the current data center not read yet
  center,      \* the name of the current data center
  i,           \* the counter of the loop over one node's servers
  serials,     \* servers_count_; its domain is that of server_specs_
  names,       \* the keys of ActorRegister::actors_names_
  components,  \* components_ of the cloud and the data centers, by name
  scheduled    \* the servers the ServerSchedulerManager has schedulers for

docVars == <<specs, centers, entries, center, i>>

builtVars == <<serials, names, components, scheduled>>

startupVars == <<config, phase, docVars, builtVars>>

Cloud == [base |-> "cloud", serial |-> 1]

VMStorage == [base |-> "vm-storage", serial |-> 1]

ServerName(spec, serial) == [base |-> spec, serial |-> serial]

StartupInit ==
  /\ config \in Configs
  /\ phase = "specs"
  /\ specs = config.specs
  /\ centers = config.centers
  /\ entries = << >>
  /\ center = Cloud
  /\ i = 0
  /\ serials = << >>
  /\ names = {Cloud, VMStorage}
  /\ components = [n \in {Cloud} |-> {}]
  /\ scheduled = {}

(* Startup ends before anything was made of the node at hand. *)
EndIn(outcome) ==
  /\ phase' = outcome
  /\ UNCHANGED <<config, docVars, builtVars>>

-----------------------------------------------------------------------------
(* A faulty variant of ReadSpec: a specification replaces one of its name. *)
ReadSpecAgain ==
  /\ phase = "specs"
  /\ specs \notin {Malformed, << >>}
  /\ Head(specs) # Malformed
  /\ specs' = Tail(specs)
  /\ serials' = [s \in DOMAIN serials \cup {Head(specs)} |->
                   IF s = Head(specs) THEN 0 ELSE serials[s]]
  /\ UNCHANGED <<config, phase, centers, entries, center, i, names, components, scheduled>>

(* ParseSpecs: names of specifications are unique; no actor has them. *)
ReadSpec ==
  /\ phase = "specs"
  /\ specs \notin {Malformed, << >>}
  /\ Head(specs) \notin {Malformed} \cup DOMAIN serials
  /\ specs' = Tail(specs)
  /\ serials' = [s \in DOMAIN serials \cup {Head(specs)} |->
                   IF s = Head(specs) THEN 0 ELSE serials[s]]
  /\ UNCHANGED <<config, phase, centers, entries, center, i, names, components, scheduled>>

SpecError ==
  /\ phase = "specs"
  /\ \/ specs = Malformed
     \/ /\ specs \notin {Malformed, << >>}
        /\ Head(specs) \in {Malformed} \cup DOMAIN serials
  /\ EndIn("error")

SpecsRead ==
  /\ phase = "specs"
  /\ specs = << >>
  /\ EndIn(IF centers = Malformed THEN "error" ELSE "centers")

-----------------------------------------------------------------------------
(* ParseCloud, the loop over the data centers: Make, then AddDataCenter. *)
ReadCenter ==
  /\ phase = "centers"
  /\ centers # << >>
  /\ Head(centers) # Malformed
  /\ Head(centers).name \notin names
  /\ phase' = "servers"
  /\ center' = Head(centers).name
  /\ entries' = Head(centers).servers
  /\ centers' = Tail(centers)
  /\ names' = names \cup {center'}
  /\ components' = [n \in DOMAIN components \cup {center'} |->
                      CASE n = Cloud   -> components[Cloud] \cup {center'}
                        [] n = center' -> {}
                        [] OTHER       -> components[n]]
  /\ UNCHANGED <<config, specs, i, serials, scheduled>>

CenterError ==
  /\ phase = "centers"
  /\ centers # << >>
  /\ \/ Head(centers) = Malformed /\ EndIn("error")
     \/ /\ Head(centers) # Malformed
        /\ Head(centers).name \in names
        /\ EndIn("aborted")

(* All is built: main() goes on to Listen(). *)
CloudRead ==
  /\ phase = "centers"
  /\ centers = << >>
  /\ EndIn("listening")

-----------------------------------------------------------------------------
(* The loop over the nodes of a data center's servers. *)
ReadEntry ==
  /\ phase = "servers"
  /\ entries # << >>
  /\ Head(entries) # Malformed
  /\ Head(entries).spec \in DOMAIN serials
  /\ phase' = "making"
  /\ i' = 1
  /\ UNCHANGED <<config, specs, centers, entries, center, builtVars>>

EntryError ==
  /\ phase = "servers"
  /\ entries # << >>
  /\ Head(entries) # Malformed => Head(entries).spec \notin DOMAIN serials
  /\ EndIn("error")

CenterRead ==
  /\ phase = "servers"
  /\ entries = << >>
  /\ EndIn("centers")

(* A faulty variant of MakeServer: the serial is advanced after it was     *)
(* used.                                                                   *)
MakeServerPostIncrement ==
  /\ phase = "making"
  /\ i <= Head(entries).count
  /\ LET server == ServerName(Head(entries).spec, serials[Head(entries).spec])
     IN  /\ serials' = [serials EXCEPT ![Head(entries).spec] = Increment(@)]
         /\ names' = names \cup {server}
         /\ scheduled' = scheduled \cup {server}
         /\ components' = [components EXCEPT ![center] = @ \cup {server}]
         /\ i' = Increment(i)
         /\ phase' = IF server \in names THEN "aborted"
                     ELSE IF Head(entries).scheduler # "greedy" THEN "error" ELSE phase
  /\ UNCHANGED <<config, specs, centers, entries, center>>

(* The loop over one node's servers.  The scheduler's name is looked at    *)
(* only here, after the server has been made: a node for no servers may    *)
(* name any scheduler.                                                     *)
MakeServer ==
  /\ phase = "making"
  /\ i <= Head(entries).count
  /\ LET spec == Head(entries).spec
         serial == Increment(serials[spec])
         server == ServerName(spec, serial)
     IN  /\ serials' = [serials EXCEPT ![spec] = serial]
         /\ names' = names \cup {server}
         /\ \/ /\ server \in names
               /\ phase' = "aborted"
               /\ UNCHANGED <<i, components, scheduled>>
            \/ /\ server \notin names
               /\ Head(entries).scheduler # "greedy"
               /\ phase' = "error"
               /\ UNCHANGED <<i, components, scheduled>>
            \/ /\ server \notin names
               /\ Head(entries).scheduler = "greedy"
               /\ scheduled' = scheduled \cup {server}
               /\ components' = [components EXCEPT ![center] = @ \cup {server}]
               /\ i' = Increment(i)
               /\ UNCHANGED phase
  /\ UNCHANGED <<config, specs, centers, entries, center>>

(* A faulty variant of EntryRead: the node is read again. *)
EntryReadAgain ==
  /\ phase = "making"
  /\ i > Head(entries).count
  /\ phase' = "servers"
  /\ UNCHANGED <<config, specs, centers, entries, center, i, builtVars>>

EntryRead ==
  /\ phase = "making"
  /\ i > Head(entries).count
  /\ phase' = "servers"
  /\ entries' = Tail(entries)
  /\ UNCHANGED <<config, specs, centers, center, i, builtVars>>

StartupNext ==
  \/ ReadSpec \/ SpecError \/ SpecsRead
  \/ ReadCenter \/ CenterError \/ CloudRead
  \/ ReadEntry \/ EntryError \/ CenterRead
  \/ MakeServer \/ EntryRead

StartupSafetySpec == StartupInit /\ [][StartupNext]_startupVars

(* main() runs on by itself. *)
StartupSpec == StartupSafetySpec /\ WF_startupVars(StartupNext)

-----------------------------------------------------------------------------
Over == {"listening", "error", "aborted"}

(* What is written in a configuration that can be read: its servers, as    *)
(* <<data center, node, number>>, those of one specification, and the      *)
(* serials these should have.                                              *)
Written ==
  UNION {UNION {{<<k, j, n>> : n \in 1..config.centers[k].servers[j].count} :
                  j \in DOMAIN config.centers[k].servers} : k \in DOMAIN config.centers}

WrittenOf(spec) == {p \in Written : config.centers[p[1]].servers[p[2]].spec = spec}

SerialsOf(spec) == {n % Modulus : n \in 1..Cardinality(WrittenOf(spec))}

CenterNames == {c.name : c \in Elements(config.centers)}

Readable ==
  /\ config.specs # Malformed /\ config.centers # Malformed
  /\ Malformed \notin Elements(config.specs) /\ Malformed \notin Elements(config.centers)
  /\ \A c \in Elements(config.centers) : Malformed \notin Elements(c.servers)

(* The configurations the engine should start with: all names differ, each *)
(* node names a known specification and, if it asks for servers, the only  *)
(* scheduler there is.  A node for the largest count of servers makes its  *)
(* loop overflow until names repeat; so do too many servers of one kind.   *)
Acceptable ==
  /\ Readable
  /\ Cardinality(Elements(config.specs)) = Len(config.specs)
  /\ Cardinality(CenterNames) = Len(config.centers)
  /\ {Cloud, VMStorage} \cap CenterNames = {}
  /\ \A c \in Elements(config.centers) : \A e \in Elements(c.servers) :
       /\ e.spec \in Elements(config.specs)
       /\ e.count > 0 => e.scheduler = "greedy"
       /\ e.count < Modulus - 1
  /\ \A s \in Elements(config.specs) :
       /\ Cardinality(WrittenOf(s)) <= Modulus
       /\ \A n \in SerialsOf(s) : ServerName(s, n) \notin {Cloud, VMStorage} \cup CenterNames

(* The engine listens only with an acceptable configuration and rejects    *)
(* only others, whatever it had built when it met the fault (ParseSpecs,   *)
(* ParseCloud, ActorRegister::Make).                                       *)
RejectsTheRightOnes ==
  /\ phase = "listening" => Acceptable
  /\ phase \in {"error", "aborted"} => ~Acceptable

(* The engine that listens has the cloud that was written: every data      *)
(* center has as many servers as its nodes ask for, no server is part of   *)
(* two, each has its scheduler, and the servers of one specification are   *)
(* numbered from 1 without gaps across all data centers and nodes (the     *)
(* README's SERVER_NAME-SERVER_SERIAL).                                    *)
BuiltAsWritten ==
  phase = "listening" =>
    /\ components[Cloud] = CenterNames
    /\ scheduled = UNION {components[c] : c \in CenterNames}
    /\ scheduled = UNION {{ServerName(s, n) : n \in SerialsOf(s)} : s \in Elements(config.specs)}
    /\ names = {Cloud, VMStorage} \cup CenterNames \cup scheduled
    /\ \A k \in DOMAIN config.centers :
         Cardinality(components[config.centers[k].name]) = Cardinality({p \in Written : p[1] = k})

(* Startup comes to an end, also with counts at the limit of their width.  *)
StartupEnds == <>(phase \in Over)

=============================================================================
