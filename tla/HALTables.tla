----------------------------- MODULE HALTables -----------------------------
(***************************************************************************)
(* What kernel and CPU read of each other in memory and registers: segment *)
(* descriptors and the task state segment (GDT.c), interrupt gates (IDT.c) *)
(* and the answers of CPUID (OSCPU.c).                                     *)
(*                                                                         *)
(* A number is the sequence of its hexadecimal digits, the least           *)
(* significant first, so that a packed structure is its fields put one     *)
(* behind the other; all shifts and masks are multiples of four bits.      *)
(***************************************************************************)
EXTENDS Integers, Sequences, SequencesExt

(* Of a number below 16^4.                                                 *)
Number(n, digits) ==
    [i \in 1 .. digits |-> IF i <= 4 THEN (n \div 16 ^ (i - 1)) % 16 ELSE 0]

(* (x >> shift) & mask, for a mask of so many bits.                        *)
Part(x, shift, bits) == SubSeq(x, shift \div 4 + 1, (shift + bits) \div 4)

Value16(x) == FoldRight(LAMBDA digit, v : v * 16 + digit, x, 0)

-----------------------------------------------------------------------------
(* GDT.c *)

HALGlobalDescriptorTable(d) ==
    d.limitLow \o d.baseLow \o d.baseMiddle \o d.access \o d.granularity \o d.baseHigh

sHALGlobalDescriptorTableSetGate(base, limit, access, granularity) ==
    HALGlobalDescriptorTable(
        [baseLow |-> Part(base, 0, 16), baseMiddle |-> Part(base, 16, 8),
         baseHigh |-> Part(base, 24, 8), limitLow |-> Part(limit, 0, 16),
         granularity |-> Part(limit, 16, 4) \o Part(granularity, 4, 4), access |-> access])

(* The fields and their sizes in bytes.                                    *)
HALTaskStateSegment ==
    << <<"reserved0", 4>>, <<"rsp0", 8>>, <<"rsp1", 8>>, <<"rsp2", 8>>, <<"reserved1", 8>>,
       <<"ist1", 8>>, <<"ist2", 8>>, <<"ist3", 8>>, <<"ist4", 8>>, <<"ist5", 8>>,
       <<"ist6", 8>>, <<"ist7", 8>>, <<"reserved2", 8>>, <<"reserved3", 2>>,
       <<"iomapBase", 2>> >>

SizeOf(fields) == FoldLeft(LAMBDA n, f : n + f[2], 0, fields)
OffsetOf(fields, name) ==
    SizeOf(SubSeq(fields, 1, SelectInSeq(fields, LAMBDA f : f[1] = name) - 1))

(* Two entries: access 0x89, the size as the limit, and behind it the upper*)
(* half of the address.                                                    *)
sHALTaskStateSegmentWrite(base) ==
    sHALGlobalDescriptorTableSetGate(base, Number(SizeOf(HALTaskStateSegment), 16),
                                     Number(137, 2), Number(0, 2))
        \o Part(base, 32, 32) \o Number(0, 8)

-----------------------------------------------------------------------------
(* IDT.c *)

HALInterruptsDescriptorTableEntry(g) ==
    g.offsetLow \o g.selector \o g.ist \o g.attributes \o g.offsetMid \o g.offsetHigh
        \o g.reserved

sHALInterruptsDescriptorTableSetGate(handler, selector, ist, flags) ==
    HALInterruptsDescriptorTableEntry(
        [offsetLow |-> Part(handler, 0, 16), offsetMid |-> Part(handler, 16, 16),
         offsetHigh |-> Part(handler, 32, 32), selector |-> selector, ist |-> ist,
         attributes |-> flags, reserved |-> Number(0, 8)])

-----------------------------------------------------------------------------
(* OSCPU.c *)

(* Where CPUID reports each feature, and the bit it has in `features`.     *)
OSCPUFeature ==
    [FPU  |-> <<"edx", 0, 0>>,   TSC |-> <<"edx", 4, 1>>,    MSR |-> <<"edx", 5, 2>>,
     PAE  |-> <<"edx", 6, 5>>,   APIC |-> <<"edx", 9, 3>>,   MTRR |-> <<"edx", 12, 4>>,
     SSE  |-> <<"edx", 25, 10>>, SSE2 |-> <<"edx", 26, 11>>, SSE3 |-> <<"ecx", 0, 12>>,
     SSSE3 |-> <<"ecx", 9, 13>>, SSE4_1 |-> <<"ecx", 19, 14>>,
     SSE4_2 |-> <<"ecx", 20, 15>>, AVX |-> <<"ecx", 28, 20>>, F16C |-> <<"ecx", 29, 21>>,
     RDRAND |-> <<"ecx", 30, 22>>, Hypervisor |-> <<"ecx", 31, 30>>]

(* From CPUID's answers: the vendor's twelve characters in EBX, EDX and ECX*)
(* of leaf 0; the version and the bits of ECX and EDX of leaf 1.           *)
OSCPUInitialize(leaf0, leaf1) ==
    LET family == leaf1.eax[3]
        extended == IF family \in {6, 15} THEN leaf1.eax[5] * 16 ELSE 0
    IN  [vendorID |-> leaf0.ebx \o leaf0.edx \o leaf0.ecx \o <<0>>,
         family |-> family, model |-> leaf1.eax[2] + extended,
         features |-> {OSCPUFeature[f][3] : f \in
                          {g \in DOMAIN OSCPUFeature :
                              OSCPUFeature[g][2] \in leaf1[OSCPUFeature[g][1]]}}]

OSCPUHasFeature(cpuData, f) == OSCPUFeature[f][3] \in cpuData.features

-----------------------------------------------------------------------------
(* How the CPU reads the tables. *)

SegmentBase(d) == Part(d, 16, 24) \o Part(d, 56, 8)
SegmentLimit(d) == Value16(Part(d, 0, 16) \o Part(d, 48, 4))
Present(d) == d[12] >= 8
Privilege(d) == (d[12] \div 2) % 4
IsCode(d) == d[12] % 2 = 1 /\ d[11] >= 8
LongMode(d) == (d[14] \div 2) % 2 = 1
GateOffset(g) == Part(g, 0, 16) \o Part(g, 48, 16) \o Part(g, 64, 32)

(* Addresses in which every digit tells its place.                         *)
SampleAddresses == {[i \in 1 .. 16 |-> i - 1], [i \in 1 .. 16 |-> 16 - i]}

(* The task state segment is where the CPU looks for it, all 64 bits of the*)
(* address, with its fields where the CPU expects them; its I/O map lies   *)
(* outside the limit, so that programs reach no port.                      *)
TaskStateSegmentFound ==
    LET size == SizeOf(HALTaskStateSegment)
        offset(name) == OffsetOf(HALTaskStateSegment, name)
    IN  /\ <<offset("rsp0"), offset("ist1"), offset("iomapBase"), size>> = <<4, 36, 102, 104>>
        /\ \A base \in SampleAddresses :
            LET d == sHALTaskStateSegmentWrite(base) IN
            /\ SegmentBase(d) \o Part(d, 64, 32) = base
            /\ Present(d) /\ Part(d, 40, 4) = <<9>>
            /\ SegmentLimit(d) >= size - 1
            /\ \A port \in {0, 96, 1016} : size + port \div 8 + 1 > SegmentLimit(d)

(* A gate leads to its handler, in ring 0, through the kernel's selector.  *)
GatesLead ==
    \A handler \in SampleAddresses, ist \in 0 .. 1 :
        LET g == sHALInterruptsDescriptorTableSetGate(handler, Number(8, 4), Number(ist, 2),
                                                      Number(142, 2))
        IN  /\ GateOffset(g) = handler /\ Value16(Part(g, 16, 16)) = 8
            /\ Value16(Part(g, 32, 4)) = ist
            /\ Present(g) /\ Privilege(g) = 0

(* A feature is answered for by its own bit and no other's; the vendor's   *)
(* name ends inside its field.                                             *)
FeaturesTold ==
    \A here \in SUBSET {"FPU", "SSE", "SSE3", "AVX", "RDRAND", "Hypervisor", "PAE", "APIC"} :
        LET bits(r) == {OSCPUFeature[f][2] : f \in {g \in here : OSCPUFeature[g][1] = r}}
            cpuData == OSCPUInitialize([ebx |-> <<1, 2, 3, 4>>, edx |-> <<5, 6, 7, 8>>,
                                        ecx |-> <<9, 10, 11, 12>>],
                                       [eax |-> Number(0, 8), edx |-> bits("edx"),
                                        ecx |-> bits("ecx")])
        IN  /\ \A f \in DOMAIN OSCPUFeature : OSCPUHasFeature(cpuData, f) <=> f \in here
            /\ cpuData.vendorID = [i \in 1 .. 13 |-> i % 13]
=============================================================================
