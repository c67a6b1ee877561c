------------------------------- MODULE VMRequest -------------------------------
(***************************************************************************)
(* The numbers of a create-vm command on their way from the console line   *)
(* to the VM: read from the line as uint32_t (client/rpc-client.cpp),      *)
(* sent as text, and read again as int by the workload model               *)
(* (custom/workload-models/constant.h), after the engine has registered    *)
(* the VM (World::CreateVM).                                               *)
(***************************************************************************)
EXTENDS Integers, Sequences

CONSTANTS
  IMax,   \* the largest int
  Number  \* the integers a user may type

ASSUME RequestAssumption == IMax \in Nat \ {0} /\ Number \subseteq Int

UMax == 2 * IMax + 1  \* the largest uint32_t: as many bits, none for a sign

(* What a user types for a number: an integer, a word that is none, or     *)
(* nothing.                                                                *)
Token == [kind : {"integer"}, n : Number] \cup [kind : {"word", "nothing"}, n : {0}]

VARIABLES
  typed,   \* required_ram, cpu_percent and io_bandwidth as typed
  value,   \* the same as the client or the workload model has read them
  failed,  \* the stream's failbit
  phase    \* how far the command is

requestVars == <<typed, value, failed, phase>>

RequestInit ==
  /\ typed \in [1..3 -> Token]
  /\ \A i \in 1..2 : typed[i].kind = "nothing" => typed[i + 1].kind = "nothing"
  /\ value = <<0, 0, 0>>
  /\ failed = FALSE
  /\ phase = "line"

-----------------------------------------------------------------------------
(* istream >> uint32_t: a word or the end of the line gives 0, too large a *)
(* magnitude the largest value, both with the failbit set; a minus sign    *)
(* wraps around.                                                           *)
Magnitude(n) == IF n < 0 THEN -n ELSE n

Extracted(token) ==
  CASE token.kind # "integer" -> [value |-> 0, fails |-> TRUE]
    [] Magnitude(token.n) > UMax -> [value |-> UMax, fails |-> TRUE]
    [] OTHER -> [value |-> token.n % (UMax + 1), fails |-> FALSE]

(* Once the stream has failed the rest keep their initial zero. *)
ReadNumber(i) ==
  IF failed THEN UNCHANGED <<value, failed>>
  ELSE /\ value' = [value EXCEPT ![i] = Extracted(typed[i]).value]
       /\ failed' = Extracted(typed[i]).fails

ReadLine ==
  /\ UNCHANGED typed
  /\ \/ phase = "line" /\ ReadNumber(1) /\ phase' = "cpu"
     \/ phase = "cpu" /\ ReadNumber(2) /\ phase' = "bandwidth"
     \/ phase = "bandwidth" /\ ReadNumber(3) /\ phase' = "read"

(* A faulty variant of CheckNumbers: the last number is not looked at. *)
CheckFirstTwo ==
  /\ phase = "read"
  /\ phase' = IF value[1] = 0 \/ value[2] = 0 THEN "not_provided" ELSE "sent"
  /\ UNCHANGED <<typed, value, failed>>

(* A zero counts as not provided; the failbit is not looked at. *)
CheckNumbers ==
  /\ phase = "read"
  /\ phase' = IF \E i \in 1..3 : value[i] = 0 THEN "not_provided" ELSE "sent"
  /\ UNCHANGED <<typed, value, failed>>

(* A faulty variant of Setup: any uint32_t is taken. *)
SetupUnsigned ==
  /\ phase = "sent"
  /\ phase' = "created"
  /\ UNCHANGED <<typed, value, failed>>

(* World::CreateVM registers the name, and then has ConstantVMWorkloadModel*)
(* ::Setup call stoi, which throws for what is no int.                     *)
Setup ==
  /\ phase = "sent"
  /\ phase' = IF \E i \in 1..3 : value[i] > IMax THEN "registered_only" ELSE "created"
  /\ UNCHANGED <<typed, value, failed>>

RequestNext == ReadLine \/ CheckNumbers \/ Setup

RequestSpec == RequestInit /\ [][RequestNext]_requestVars

-----------------------------------------------------------------------------
(* Whether a typed number survives both readings, and as what. *)
Residue(token) == token.n % (UMax + 1)

Fits(token) == token.kind = "integer" /\ Magnitude(token.n) <= UMax

(* A VM that is created needs what was typed, modulo the word size, and    *)
(* exactly that unless a minus sign was typed: no number is truncated,     *)
(* clamped or left at zero on the way.                                     *)
CreatedAsTyped ==
  phase = "created" =>
    \A i \in 1..3 :
      /\ Fits(typed[i])
      /\ value[i] = Residue(typed[i])
      /\ value[i] \in 1..IMax
      /\ typed[i].n >= 0 => value[i] = typed[i].n

(* A name is taken without a VM (World's CreateVMFails) exactly when the   *)
(* first two numbers fit, none is zero, and one of the three, or too large *)
(* a third, exceeds an int: the console can cause it.                      *)
NameBurntBy ==
  /\ Fits(typed[1]) /\ Fits(typed[2]) /\ typed[3].kind = "integer"
  /\ Residue(typed[1]) # 0 /\ Residue(typed[2]) # 0
  /\ Fits(typed[3]) => Residue(typed[3]) # 0
  /\ ~Fits(typed[3]) \/ \E i \in 1..3 : Residue(typed[i]) > IMax

NameBurntExactlyWhen ==
  phase \in {"created", "registered_only", "not_provided"} =>
    (phase = "registered_only" <=> NameBurntBy)

=============================================================================
