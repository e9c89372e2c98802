----------------------------- MODULE UserStack -----------------------------
(***************************************************************************)
(* The initial stack of a program: setup_system_v_user_stack (init_exec.rs)*)
(* writes strings and words down from the top of the stack, through the    *)
(* frames that back it, and what the program then reads there.  The stack  *)
(* is Pages pages of PageBytes bytes below the address StackTop; a string  *)
(* is known by its length, a write by the value it leaves in each byte.    *)
(***************************************************************************)
EXTENDS Integers, Sequences

CONSTANTS
    StackPages,              \* STACK_PAGES
    StackPageBytes,          \* mm::frame::PAGE_SIZE
    StackTop,                \* USER_STACK_TOP
    AuxKeys                  \* the keys of the auxiliary vector, 0 the last

ASSUME StackAssumption ==
    /\ StackPageBytes % 8 = 0 /\ StackTop % StackPageBytes = 0
    /\ StackTop >= StackPages * StackPageBytes

StackBottom == StackTop - StackPages * StackPageBytes

\* user_to_kernel_ptr: the physical address behind a user address of the stack.
Physical(frames, address) ==
    LET offset == address - StackBottom
    IN  frames[(offset \div StackPageBytes) + 1] * StackPageBytes + (offset % StackPageBytes)

\* A stack being built: the stack pointer and the bytes of physical memory.
\* Bytes are written on from the physical address of the first one; outside
\* the stack nothing is written.
Put(frames, stack, bytes) ==
    LET sp == stack.sp - Len(bytes)
        at == Physical(frames, sp)
    IN  [stack EXCEPT !.sp = sp,
             !.memory = IF sp < StackBottom \/ sp >= StackTop THEN @
                        ELSE [a \in DOMAIN @ |-> IF a - at \in 0 .. Len(bytes) - 1
                                                 THEN bytes[a - at + 1] ELSE @[a]]]

\* A word is known by its value and the number of its byte.
WordBytes(value) == [k \in 1 .. 8 |-> <<"word", value, k>>]
PutWord(frames, stack, value) == Put(frames, stack, WordBytes(value))

TextBytes(text) == [k \in 1 .. text.length + 1 |-> IF k > text.length THEN <<"nul">>
                                                   ELSE <<"text", text.name, k>>]

\* The strings of envp or argv, each below the one before it, and where they are.
PutTextsUnterminated(frames, stack, texts) ==
    LET F[n \in 0 .. Len(texts)] ==
            IF n = 0 THEN [stack EXCEPT !.pointers = <<>>]
            ELSE LET put == Put(frames, F[n - 1], SubSeq(TextBytes(texts[n]), 1, texts[n].length))
                 IN  [put EXCEPT !.pointers = Append(@, put.sp)]
    IN  F[Len(texts)]

PutTexts(frames, stack, texts) ==
    LET F[n \in 0 .. Len(texts)] ==
            IF n = 0 THEN [stack EXCEPT !.pointers = <<>>]
            ELSE LET put == Put(frames, F[n - 1], TextBytes(texts[n]))
                 IN  [put EXCEPT !.pointers = Append(@, put.sp)]
    IN  F[Len(texts)]

\* Words written so that they read upwards in the order of the sequence.
PutWords(frames, stack, words) ==
    LET F[n \in 0 .. Len(words)] ==
            IF n = 0 THEN stack ELSE PutWord(frames, F[n - 1], words[Len(words) + 1 - n])
    IN  F[Len(words)]

AuxWords(values) == [k \in 1 .. 2 * Len(AuxKeys) |-> IF k % 2 = 1 THEN AuxKeys[(k + 1) \div 2]
                                                     ELSE values[k \div 2]]

\* setup_system_v_user_stack, once the frames are allocated, cleared and mapped:
\* sixteen random bytes, the environment, the arguments, padding, then the
\* auxiliary vector, the two pointer vectors and the count.
SetupUserStack(frames, memory, argv, envp, aux) ==
    LET start  == [sp |-> StackTop, memory |-> memory, pointers |-> <<>>]
        random == Put(frames, start, [k \in 1 .. 16 |-> <<"random", k>>])
        envs   == PutTexts(frames, random, envp)
        args   == PutTexts(frames, envs, argv)
        even   == [args EXCEPT !.sp = @ - (@ % 8)]
        words  == 1 + (Len(argv) + 1) + (Len(envp) + 1) + 2 * Len(AuxKeys)
        padded == IF words % 2 # 0 THEN PutWord(frames, even, 0) ELSE even
    IN  PutWords(frames, padded, <<Len(argv)>> \o args.pointers \o <<0>> \o envs.pointers
                                     \o <<0>> \o AuxWords(aux))

-----------------------------------------------------------------------------
(* What a program finds                                                    *)

\* The bytes the strings and the words take, at most.
StackNeeds(argv, envp) ==
    LET Total(texts) == LET F[n \in 0 .. Len(texts)] ==
                                IF n = 0 THEN 0 ELSE F[n - 1] + texts[n].length + 1
                        IN  F[Len(texts)]
    IN  [text |-> 16 + Total(envp) + Total(argv),
         all  |-> 16 + Total(envp) + Total(argv) + 16
                  + 8 * (3 + Len(argv) + Len(envp) + 2 * Len(AuxKeys))]

Contiguous(frames) == \A n \in 1 .. StackPages - 1 : frames[n + 1] = frames[n] + 1

UserByte(frames, stack, address) == stack.memory[Physical(frames, address)]

HasBytes(frames, stack, address, bytes) ==
    \A k \in DOMAIN bytes :
        /\ address + k - 1 \in StackBottom .. StackTop - 1
        /\ UserByte(frames, stack, address + k - 1) = bytes[k]

\* The program reads its count, its arguments, its environment and the auxiliary
\* vector in this order from the stack pointer, each string whole and
\* terminated, as long as the stack holds them and the strings stay in one
\* page or the frames behind the stack follow one another.
StackReadable(frames, stack, argv, envp, aux) ==
    LET needs == StackNeeds(argv, envp)
        Word(n, value) == HasBytes(frames, stack, stack.sp + 8 * n, WordBytes(value))
        Points(n, text) == \E a \in StackBottom .. StackTop - 1 :
                               /\ Word(n, a)
                               /\ HasBytes(frames, stack, a, TextBytes(text))
    IN  /\ needs.all <= StackPages * StackPageBytes
        /\ needs.text <= StackPageBytes \/ Contiguous(frames)
        => /\ stack.sp % 8 = 0
           /\ Word(0, Len(argv))
           /\ \A i \in DOMAIN argv : Points(i, argv[i])
           /\ Word(Len(argv) + 1, 0)
           /\ \A i \in DOMAIN envp : Points(Len(argv) + 1 + i, envp[i])
           /\ Word(Len(argv) + Len(envp) + 2, 0)
           /\ \A k \in 1 .. 2 * Len(AuxKeys) :
                  Word(Len(argv) + Len(envp) + 2 + k, AuxWords(aux)[k])
=============================================================================
