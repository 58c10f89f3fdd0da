---------------------------- MODULE ProofOfWork ----------------------------
(***************************************************************************)
(* Proof of work: the challenge the server signs, the agent that searches  *)
(* a postfix for it in a web worker of the page, and the server's check of *)
(* an attempt.  What the database makes of an attempt that passes is the   *)
(* subject of Accounts.                                                    *)
(*                                                                         *)
(* Commands reach the agent in order and wait in its scope; it looks for   *)
(* one only while it is idle and between two batches of attempts.          *)
(***************************************************************************)
EXTENDS Integers, Sequences, FiniteSetsExt, SequencesExt

CONSTANTS
  ByteBits,        \* 8
  PostfixLength,   \* size_of::<usize>(), 4 in the browser
  Challenges, Difficulty,
  HashLength, Hash,    \* sha256 of a challenge's nonce and a postfix
  LoopAttempts,        \* 1000
  SigningSalt, UnsigningSalt,
  MaxCommands          \* bound: buttons pressed on the page

None == "none"
Stop == "stop"

Power2[k \in Nat] == IF k = 0 THEN 1 ELSE 2 * Power2[k - 1]
Unsigned(bits) == 0..(Power2[bits] - 1)   \* unsigned numbers of that many bits

Byte    == Unsigned(ByteBits)
Postfix == [1..PostfixLength -> Byte]
Zeros   == [i \in 1..PostfixLength |-> 0]
Counter == Unsigned(ByteBits * PostfixLength)   \* usize

ASSUME SizesAssumption ==
  {ByteBits, PostfixLength, HashLength, LoopAttempts} \subseteq Nat \ {0}
ASSUME HashAssumption ==
  Hash \in [Challenges -> [Postfix -> [1..HashLength -> Byte]]]
ASSUME ChallengesAssumption == Challenges \cap {None, Stop} = {}
ASSUME DifficultyAssumption == Difficulty \in [Challenges -> Nat]
ASSUME PowBoundsAssumption == MaxCommands \in Nat

VARIABLES
  pc,                    \* "idle", "select" or "attempt"
  input,                 \* the challenge that is searched for
  my_attempt, attempts_done, max_difficulty_found,
  in_batch,              \* attempts of the current batch
  commands,              \* on their way to the agent: "stop" or a challenge
  pressed,               \* for the bound
  output,                \* the last message of the agent
  verdict                \* the server's last answer to an attempt

agentVars == <<pc, input, my_attempt, attempts_done, max_difficulty_found, in_batch>>
vars == <<agentVars, commands, pressed, output, verdict>>

-----------------------------------------------------------------------------
(* Numbers.                                                                *)

LeadingZeros(byte) == Max({k \in 0..ByteBits : byte < Power2[ByteBits - k]})

\* Mutant of CheckHashDifficulty.
CountAllZeros(hash) ==
  FoldLeft(LAMBDA count, byte : count + LeadingZeros(byte), 0, hash)

CheckHashDifficulty(hash) ==
  LET nonzero == {i \in DOMAIN hash : hash[i] # 0}
      first   == Min(nonzero)
  IN IF nonzero = {} THEN ByteBits * Len(hash)
     ELSE ByteBits * (first - 1) + LeadingZeros(hash[first])

\* From the right, 255 becomes 0 and the first other byte is incremented.
IncrementByteSlice(data) ==
  LET carry == Max({0} \cup {i \in DOMAIN data : data[i] # Power2[ByteBits] - 1})
  IN [i \in DOMAIN data |-> CASE i < carry -> data[i]
                              [] i = carry -> data[i] + 1
                              [] i > carry -> 0]

Solved(difficulty, challenge) == difficulty >= Difficulty[challenge]

\* What they are to be, with a slice read as a number, first byte highest.
Value(data) ==
  LET value[i \in 0..Len(data)] ==
        IF i = 0 THEN 0 ELSE value[i - 1] * Power2[ByteBits] + data[i]
  IN value[Len(data)]
HasZeroBits(hash, n) ==
  n <= ByteBits * Len(hash) /\ Value(hash) < Power2[ByteBits * Len(hash) - n]

-----------------------------------------------------------------------------
Init ==
  /\ pc = "idle"
  /\ input = None
  /\ my_attempt = Zeros
  /\ attempts_done = 0 /\ max_difficulty_found = 0 /\ in_batch = 0
  /\ commands = <<>> /\ pressed = 0
  /\ output = [kind |-> None]
  /\ verdict = [answer |-> None]

(* The page.                                                               *)

Press(command) ==
  /\ pressed < MaxCommands
  /\ commands' = Append(commands, command)
  /\ pressed' = pressed + 1
  /\ UNCHANGED <<agentVars, output, verdict>>

-----------------------------------------------------------------------------
(* The agent.                                                              *)

Enter(where, challenge) ==
  /\ pc' = where /\ input' = challenge
  /\ my_attempt' = Zeros
  /\ attempts_done' = 0 /\ max_difficulty_found' = 0 /\ in_batch' = 0

\* Mutant of Idle.
IdleWithInput == Enter("idle", input)

Idle == Enter("idle", None)

AwaitInput ==
  /\ pc = "idle" /\ commands # <<>>
  /\ commands' = Tail(commands)
  /\ IF Head(commands) = Stop THEN UNCHANGED agentVars ELSE Enter("select", Head(commands))
  /\ UNCHANGED <<pressed, output, verdict>>

\* Mutant of Continue: each batch begins again.
ContinueAfresh ==
  /\ pc' = "attempt" /\ in_batch' = 0
  /\ my_attempt' = Zeros /\ attempts_done' = 0
  /\ UNCHANGED <<input, max_difficulty_found>>

Continue ==
  /\ pc' = "attempt" /\ in_batch' = 0
  /\ UNCHANGED <<input, my_attempt, attempts_done, max_difficulty_found>>

\* Mutant of HearCommand.
HearNothing ==
  /\ pc = "select" /\ commands # <<>>
  /\ commands' = Tail(commands)
  /\ Continue
  /\ UNCHANGED <<pressed, output, verdict>>

\* The branch scope.next(): another challenge is swallowed.
HearCommand ==
  /\ pc = "select" /\ commands # <<>>
  /\ commands' = Tail(commands)
  /\ IF Head(commands) = Stop THEN Idle ELSE Continue
  /\ UNCHANGED <<pressed, output, verdict>>

\* The branch sleep(0).
Yield ==
  /\ pc = "select"
  /\ Continue
  /\ UNCHANGED <<commands, pressed, output, verdict>>

\* One attempt; bound by \E so that TLC computes each hash once.
Attempt ==
  /\ pc = "attempt" /\ in_batch < LoopAttempts
  /\ \E next \in {IncrementByteSlice(my_attempt)} :
     \E difficulty \in {CheckHashDifficulty(Hash[input][next])} :
       IF Solved(difficulty, input)
       THEN /\ output' = [kind |-> "FoundSolution", challenge |-> input, nonce |-> next]
            /\ Idle
       ELSE /\ attempts_done' = (attempts_done + 1) % Power2[ByteBits * PostfixLength]
            /\ my_attempt' = next
            /\ max_difficulty_found' = Max({max_difficulty_found, difficulty})
            /\ in_batch' = in_batch + 1
            /\ UNCHANGED <<pc, input, output>>
  /\ UNCHANGED <<commands, pressed, verdict>>

Progress ==
  /\ pc = "attempt" /\ in_batch = LoopAttempts
  /\ output' = [kind |-> "Progress", challenge |-> input,
                attempts_done |-> attempts_done,
                max_difficulty_found |-> max_difficulty_found]
  /\ pc' = "select"
  /\ UNCHANGED <<input, my_attempt, attempts_done, max_difficulty_found, in_batch,
                 commands, pressed, verdict>>

-----------------------------------------------------------------------------
(* The server.                                                             *)

\* itsdangerous: a signature is good for the salt it was made with.
GetChallenge(challenge) == [json |-> challenge, salt |-> SigningSalt]
Unsigns(challenge_string) == challenge_string.salt = UnsigningSalt

Answer(challenge_string, nonce_postfix) ==
  CASE ~Unsigns(challenge_string) -> "undecodable"
    [] ~Solved(CheckHashDifficulty(Hash[challenge_string.json][nonce_postfix]),
               challenge_string.json) -> "not satisfied"
    [] OTHER -> "satisfied"

\* Somebody posts the solution the page shows, for one of the challenges.
VerifyChallenge(challenge) ==
  /\ output.kind = "FoundSolution"
  /\ verdict' = [challenge |-> challenge, solved |-> output.challenge,
                 answer |-> Answer(GetChallenge(challenge), output.nonce)]
  /\ UNCHANGED <<agentVars, commands, pressed, output>>

AgentStep == AwaitInput \/ HearCommand \/ Yield \/ Attempt \/ Progress

Next ==
  \/ \E c \in Challenges \cup {Stop} : Press(c)
  \/ AgentStep
  \/ \E c \in Challenges : VerifyChallenge(c)

\* The worker's event loop runs what is ready; select! polls its branches in
\* random order, so that a command that stays ready is taken.
Fairness == WF_vars(AgentStep) /\ SF_vars(HearCommand)

Spec == Init /\ [][Next]_vars /\ Fairness

-----------------------------------------------------------------------------
(* Properties.                                                             *)

\* Agent, commands and messages are well formed.
TypeOK ==
  /\ pc \in {"idle", "select", "attempt"}
  /\ input \in Challenges \cup {None}
  /\ pc = "idle" <=> input = None
  /\ my_attempt \in Postfix
  /\ attempts_done \in Counter /\ in_batch \in 0..LoopAttempts
  /\ max_difficulty_found \in 0..(ByteBits * HashLength)
  /\ commands \in Seq(Challenges \cup {Stop}) /\ pressed \in 0..MaxCommands
  /\ Len(commands) <= pressed
  /\ output.kind \in {None, "FoundSolution", "Progress"}
  /\ verdict.answer \in {None, "undecodable", "not satisfied", "satisfied"}

\* What the agent reports is true of the challenge it was started with, after
\* any swallowed and late commands: a solution has the zero bits that are
\* asked for (as the number the hash is, not byte by byte), progress counts
\* postfixes that all differ and all failed, and its best is the best of them.
ReportsAreTrue ==
  LET Has(p, d) == HasZeroBits(Hash[output.challenge][p], d)
      asked     == Difficulty[output.challenge]
      tried     == {p \in Postfix : Value(p) \in 1..output.attempts_done}
      best      == output.max_difficulty_found
  IN /\ output.kind = "FoundSolution" => Has(output.nonce, asked)
     /\ output.kind = "Progress" =>
          /\ \A p \in tried : ~Has(p, asked) /\ ~Has(p, best + 1)
          /\ best > 0 => \E p \in Postfix : Has(p, best)

Solvable == {c \in Challenges :
               \E p \in Postfix : HasZeroBits(Hash[c][p], Difficulty[c])}

\* The search for a challenge that has a solution ends, because the
\* increments with their carry come by every postfix.
SearchEnds == \A c \in Solvable : input = c ~> input # c

\* A stop that is pressed while a search runs ends it, or it has ended before,
\* also behind challenges that are swallowed and for one without a solution.
StopEnds ==
  (pc # "idle" /\ \E i \in DOMAIN commands : commands[i] = Stop) ~> pc = "idle"

\* An attempt that solves its challenge is not refused: "We're only expecting
\* valid attempts, so any errors can be returned" (proof_of_work.rs:43).
SolutionsAreAccepted ==
  verdict.answer # None /\ verdict.challenge = verdict.solved
    => verdict.answer = "satisfied"
=============================================================================
