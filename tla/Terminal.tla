---- MODULE Terminal ----
(***************************************************************************)
(* The program at its terminal: one stdin, read by the two prompts of main *)
(* (query_gpio, query_note_duration) and then by the console thread, each  *)
(* with fgets into a buffer of its own.  A line too long for a buffer is   *)
(* read in pieces, the tail by whoever reads next.  Around them the pins,  *)
(* from their initialisation to the cleanup, switched meanwhile by the     *)
(* other threads.                                                          *)
(***************************************************************************)
EXTENDS PinIo, Sequences, FiniteSetsExt

CONSTANTS Lines,          \* what a user may type before Enter
          GPIO_BUFFER, DURATION_BUFFER, CONSOLE_BUFFER,  \* BUFFER_SIZE
          NL, NUL         \* characters

(* A command is a character, a list of GPIO numbers or a duration is one   *)
(* symbol too.                                                             *)
Symbols == {"pins", "secs", "q", "b"}

ASSUME TerminalAssumption ==
  /\ Lines \subseteq Seq(Symbols)
  /\ NL # NUL /\ {NL, NUL} \intersect Symbols = {}
  /\ {GPIO_BUFFER, DURATION_BUFFER} \subseteq Nat \ {0, 1}
  /\ CONSOLE_BUFFER \in Nat /\ CONSOLE_BUFFER > 3

VARIABLES
  pending,   \* typed, and not yet read
  eof,       \* the user has ended the input
  reader,    \* who reads stdin: "main", "console"; "none" when both are done
  buffer,    \* the console's, static
  stop, toggle_state,
  answered   \* history: what became of the console's latest read

terminalVars == <<pending, eof, reader, buffer, stop, toggle_state, answered>>
vars == <<terminalVars, pinVars>>

Init ==
  /\ PinInit
  /\ pending = <<>> /\ eof = FALSE
  /\ reader = "main"
  /\ buffer = [i \in 0..(CONSOLE_BUFFER - 1) |-> NUL]
  /\ stop = 0 /\ toggle_state = 0
  /\ answered = "nothing"

----
(* stdin *)

UserTypes ==
  /\ pending = <<>> /\ ~eof
  /\ \E line \in Lines : pending' = Append(line, NL)
  /\ UNCHANGED <<eof, reader, buffer, stop, toggle_state, answered, pinVars>>

(* The input may end in the middle of a line.                              *)
UserEnds ==
  /\ pending = <<>> /\ ~eof
  /\ eof' = TRUE
  /\ pending' \in Lines \union {<<>>}
  /\ UNCHANGED <<reader, buffer, stop, toggle_state, answered, pinVars>>

(* fgets takes what is left of the line, as far as the buffer goes.        *)
Chunk(size) ==
  SubSeq(pending, 1,
         Min({size - 1, Len(pending)} \union
             {i \in 1..Len(pending) : pending[i] = NL}))

Taken(chunk) ==
  pending' = SubSeq(pending, Len(chunk) + 1, Len(pending)) /\ UNCHANGED eof

----
(* main_init *)

(* query_gpio: a line that holds numbers, or any other.                    *)
AnswerGpio ==
  /\ reader = "main" /\ pinPc = "query" /\ pending # <<>>
  /\ LET chunk == Chunk(GPIO_BUFFER)
     IN /\ Taken(chunk)
        /\ IF chunk[1] = "pins"
           THEN \E input \in [Pins -> Typed] : GpioNumbers(input)
           ELSE UNCHANGED pinVars
  /\ UNCHANGED <<reader, buffer, stop, toggle_state, answered>>

SetDirection ==
  /\ SetDir
  /\ IF pinPc' = "failed" THEN reader' = "failed" /\ stop' = 1
                          ELSE UNCHANGED <<reader, stop>>
  /\ UNCHANGED <<pending, eof, buffer, toggle_state, answered>>

(* query_note_duration: a line that starts with a number is a duration in  *)
(* range, or is refused; any other is asked for again.  After it the       *)
(* threads start.                                                          *)
AnswerDuration ==
  /\ reader = "main" /\ pinPc = "ready" /\ pending # <<>>
  /\ LET chunk == Chunk(DURATION_BUFFER)
     IN /\ Taken(chunk)
        /\ \/ chunk[1] \in {"pins", "secs"} /\ reader' = "console"
           \/ UNCHANGED reader
  /\ UNCHANGED <<buffer, stop, toggle_state, answered, pinVars>>

(* fgets returns NULL: main_init fails and signals stop.                   *)
PromptFails ==
  /\ reader = "main" /\ pending = <<>>
  /\ \/ pinPc = "query" /\ GpioNumbersEnd
     \/ pinPc = "ready" /\ UNCHANGED pinVars
  /\ reader' = "failed" /\ stop' = 1
  /\ UNCHANGED <<pending, eof, buffer, toggle_state, answered>>

(* Mutant: the prompt is repeated.                                         *)
PromptEndedAsksAgain ==
  eof /\ reader = "main" /\ pending = <<>> /\ UNCHANGED vars

PromptEnded == eof /\ PromptFails

(* A signal hits main while it waits: no SA_RESTART.                       *)
PromptInterrupted == ~eof /\ PromptFails

----
(* The console thread *)

ConsoleLoop ==
  /\ reader = "console"
  /\ reader' = IF stop = 0 THEN "fgets" ELSE "over"
  /\ UNCHANGED <<pending, eof, buffer, stop, toggle_state, answered, pinVars>>

(* The commands that concern this module; the others are AirPiano's.       *)
handle_command(c) ==
  \/ /\ c = "q" /\ stop' = 1
     /\ UNCHANGED <<toggle_state, pinVars>>
  \/ /\ c = "b" /\ build = "emu"
     /\ toggle_state' = 1 - toggle_state
     /\ pin_io_set(PIN_IN_BEAM, toggle_state')
     /\ UNCHANGED stop
  \/ /\ c # "q" /\ ~(c = "b" /\ build = "emu")
     /\ UNCHANGED <<stop, toggle_state, pinVars>>

(* Mutants: the neighbouring characters are looked at.                     *)
TooLongByOne(text) == text[3] # NUL
TooLongAtOnce(text) == text[1] # NUL

(* More than one character and the end of the line.                        *)
TooLong(text) == text[2] # NUL

ConsoleLine ==
  /\ reader = "fgets" /\ pending # <<>>
  /\ LET chunk == Chunk(CONSOLE_BUFFER)
     IN /\ Taken(chunk)
        /\ buffer' = [i \in DOMAIN buffer |->
                        IF i < Len(chunk) THEN chunk[i + 1]
                        ELSE IF i = Len(chunk) THEN NUL ELSE buffer[i]]
  /\ reader' = "console"
  /\ answered' = IF stop = 1 THEN "nothing"
                 ELSE IF TooLong(buffer') THEN "refused" ELSE "command"
  /\ IF answered' = "command" THEN handle_command(buffer'[0])
                              ELSE UNCHANGED <<stop, toggle_state, pinVars>>

(* fgets returns NULL, at the end of the input or for a signal.            *)
ConsoleNull ==
  /\ reader = "fgets" /\ pending = <<>>
  /\ \/ eof /\ UNCHANGED stop
     \/ ~eof /\ stop' = 1
  /\ buffer' = [buffer EXCEPT ![0] = NUL]
  /\ answered' = "nothing" /\ reader' = "console"
  /\ UNCHANGED <<pending, eof, toggle_state, pinVars>>

----
(* The others *)

(* A signal to another thread, or a fatal error there.                     *)
SetStop ==
  /\ stop' = 1
  /\ UNCHANGED <<pending, eof, reader, buffer, toggle_state, answered, pinVars>>

(* The trigger of the distance thread, the LEDs of the display thread.     *)
OtherThreadSets ==
  /\ reader \in {"console", "fgets", "over"}
  /\ \E p \in Outs, s \in {0, 1} : pin_io_set(p, s)
  /\ UNCHANGED terminalVars

(* main_cleanup, after the joins.                                          *)
Cleanup ==
  /\ reader \in {"over", "failed"}
  /\ pin_io_cleanup \/ ClearPin \/ CloseDrivers
  /\ UNCHANGED terminalVars

User == UserTypes \/ UserEnds
Setup == AnswerGpio \/ SetDirection \/ AnswerDuration \/ PromptEnded
Console == ConsoleLoop \/ ConsoleLine

Next == \/ User \/ Setup \/ PromptInterrupted
        \/ Console \/ ConsoleNull \/ SetStop \/ OtherThreadSets \/ Cleanup

(* The setup of main is never held up but by a missing answer.             *)
Spec == Init /\ [][Next]_vars /\ WF_vars(Setup)

----
(* Properties *)

TypeOK ==
  /\ PinTypeOK
  /\ Range(pending) \subseteq Symbols \union {NL}
  /\ eof \in BOOLEAN
  /\ reader \in {"main", "console", "fgets", "over", "failed"}
  /\ buffer \in [0..(CONSOLE_BUFFER - 1) -> Symbols \union {NL, NUL}]
  /\ stop \in {0, 1} /\ toggle_state \in {0, 1}
  /\ answered \in {"nothing", "refused", "command"}

(* A single character, or none, and the end of the line.                   *)
Single(text) == text[0] = NL \/ (text[1] = NL /\ text[0] # NL)

(* No command is taken from more than one character and the end of a line, *)
(* whatever an earlier line left in the buffer; only text that the end of  *)
(* the input cuts off may be one.  The tail of a line too long for the     *)
(* buffer is read as a line of its own.                                    *)
CommandsAreLines ==
  answered = "command" => Single(buffer) \/ eof

(* A command on a line of its own is never refused, whatever the buffer    *)
(* still holds of the lines before.                                        *)
EachCommandRuns ==
  answered = "refused" => ~(buffer[1] = NL /\ buffer[0] # NL)

(* When the input ends, so does the setup: no prompt asks for ever.        *)
EofEndsSetup == eof ~> reader # "main"
====
