-------------------------------- MODULE Ramfb --------------------------------
(***************************************************************************)
(* The framebuffer of aarch64 (arch/aarch64/drivers/framebuffer.c): finding*)
(* "etc/ramfb" in the fw_cfg directory, taking frames for the picture and  *)
(* handing the device its address over fw_cfg DMA.  fw_cfg is big-endian,  *)
(* the CPU little-endian, so words shared with the device are kept as      *)
(* bytes.  fb_init runs in one thread during boot; the device works        *)
(* between any two of its steps.                                           *)
(***************************************************************************)
EXTENDS Integers, SequencesExt

CONSTANTS
    RAMFB_WIDTH, RAMFB_HEIGHT, RAMFB_BPP,
    PMM_FRAME_SIZE,
    BYTE,       \* values of a byte, 256
    Dirs,       \* directories: sequences of [name, select], select in bytes
    Bufs        \* addresses the PMM may give

-----------------------------------------------------------------------------
(* Words and bytes.                                                        *)

ByteValues == 0 .. BYTE - 1

\* What is left of a word when its lowest bytes are shifted out, one by one.
Shifts(n, v) ==
    LET rest[k \in 0 .. n] == IF k = 0 THEN v ELSE rest[k - 1] \div BYTE
    IN  rest

\* The bytes of a word in the CPU's memory, the lowest first.
Store(n, v) == [k \in 1 .. n |-> Shifts(n, v)[k - 1] % BYTE]

\* What fw_cfg reads there, the highest byte first, and what the CPU reads.
BigEndian(b) ==
    LET word[k \in 0 .. Len(b)] == IF k = 0 THEN 0 ELSE word[k - 1] * BYTE + b[k]
    IN  word[Len(b)]

Load(b) == BigEndian(Reverse(b))

\* bswap16, bswap32 and bswap64, n bytes: the lowest byte becomes the highest.
bswap(n, v) == BigEndian(Store(n, v))

\* n bytes are enough for v.
Fits(n, v) == v \in Nat /\ Shifts(n, v)[n] = 0

\* The sizes and addresses have the width of the fields of ramfb_cfg_t.
ASSUME RamfbAssumption ==
    /\ {RAMFB_WIDTH, RAMFB_HEIGHT, PMM_FRAME_SIZE} \subseteq Nat \ {0}
    /\ RAMFB_BPP = 4
    /\ BYTE \in Nat /\ BYTE * BYTE > 24
    /\ \A v \in {RAMFB_WIDTH, RAMFB_HEIGHT, RAMFB_WIDTH * RAMFB_BPP} : Fits(4, v)
    /\ Bufs \subseteq Nat \ {0} /\ \A a \in Bufs : Fits(8, a)
    /\ \A d \in Dirs : \A k \in DOMAIN d : d[k].select \in ByteValues \X ByteValues
    /\ \A d \in Dirs : d \in Seq({d[k] : k \in DOMAIN d})

-----------------------------------------------------------------------------
VARIABLES
    rpc,        \* fb_init: "find", "poll", "done"
    dir,        \* the machine's fw_cfg directory
    frames,     \* frames the PMM has left
    buf,        \* the run pmm_alloc_frames gave: [addr, frames]
    fb,         \* the static fb: [present, addr, pitch, width, height]
    cfg,        \* the ramfb_cfg_t handed over, in bytes
    access,     \* the fw_cfg_dma_access_t and the doorbell, in bytes
    display     \* what the device scans out: [addr, width, height, stride]

ramfb == <<rpc, dir, buf, fb, cfg, access, display>>

Nothing == << >>
NoFb    == [present |-> FALSE, addr |-> 0, pitch |-> 0, width |-> 0, height |-> 0]

RamfbInit ==
    /\ rpc = "find" /\ dir = Nothing
    /\ buf = [addr |-> 0, frames |-> 0]
    /\ fb = NoFb
    /\ cfg = Nothing /\ access = Nothing /\ display = Nothing

FW_CFG_DMA_CTL_ERROR  == 1
FW_CFG_DMA_CTL_SELECT == 8
FW_CFG_DMA_CTL_WRITE  == 16

\* Addresses of the statics the device is told about, and the length of cfg.
AccessAddr == BYTE + 1
CfgAddr    == 2 * BYTE + 1
CfgLength  == 28

-----------------------------------------------------------------------------
\* The selector of the first entry with that name, 0 when there is none.
fw_cfg_find_file(name) ==
    LET K == {k \in DOMAIN dir : dir[k].name = name}
    IN  IF K = {} THEN 0 ELSE BigEndian(dir[Min(K)].select)

\* The control word of the request, and how fw_cfg_dma_write hands it over.
Request(sel) == sel * (BYTE * BYTE) + FW_CFG_DMA_CTL_SELECT + FW_CFG_DMA_CTL_WRITE

fw_cfg_dma_write(sel) ==
    access' = [control  |-> Store(4, bswap(4, Request(sel))),
               length   |-> Store(4, bswap(4, CfgLength)),
               address  |-> Store(8, bswap(8, CfgAddr)),
               doorbell |-> Store(8, bswap(8, AccessAddr))]

\* fb_init returns: what it worked with is not looked at again.
Return ==
    /\ rpc' = "done"
    /\ dir' = Nothing /\ cfg' = Nothing /\ access' = Nothing
    /\ UNCHANGED <<frames, buf, display>>

\* Mutant of FramesNeeded: the last, partly used frame is forgotten.
FramesRoundedDown == (RAMFB_WIDTH * RAMFB_HEIGHT * RAMFB_BPP) \div PMM_FRAME_SIZE

FramesNeeded ==
    (RAMFB_WIDTH * RAMFB_HEIGHT * RAMFB_BPP + PMM_FRAME_SIZE - 1) \div PMM_FRAME_SIZE

\* No ramfb, or no run of free frames (the free ones need not be adjacent):
\* boot goes on without a framebuffer.
FbAbsent ==
    /\ rpc = "find"
    /\ Return
    /\ UNCHANGED fb

\* fb_init up to the doorbell.
FbHandOver ==
    /\ rpc = "find"
    /\ fw_cfg_find_file("etc/ramfb") # 0
    /\ frames >= FramesNeeded
    /\ \E a \in Bufs : buf' = [addr |-> a, frames |-> FramesNeeded]
    /\ frames' = frames - FramesNeeded
    /\ cfg' = [addr   |-> Store(8, bswap(8, buf'.addr)),
               width  |-> Store(4, bswap(4, RAMFB_WIDTH)),
               height |-> Store(4, bswap(4, RAMFB_HEIGHT)),
               stride |-> Store(4, bswap(4, RAMFB_WIDTH * RAMFB_BPP))]
    /\ fw_cfg_dma_write(fw_cfg_find_file("etc/ramfb"))
    /\ rpc' = "poll"
    /\ UNCHANGED <<dir, fb, display>>

Control == bswap(4, Load(access.control))

\* The device has answered with an error: no framebuffer.
FbRefused ==
    /\ rpc = "poll"
    /\ Control % 2 = FW_CFG_DMA_CTL_ERROR
    /\ Return
    /\ UNCHANGED fb

\* The control word is clear: the device has the address.
FbPresent ==
    /\ rpc = "poll"
    /\ Control = 0
    /\ fb' = [present |-> TRUE, addr |-> buf.addr, pitch |-> RAMFB_WIDTH * RAMFB_BPP,
              width |-> RAMFB_WIDTH, height |-> RAMFB_HEIGHT]
    /\ Return

fb_init == FbAbsent \/ FbHandOver \/ FbRefused \/ FbPresent

-----------------------------------------------------------------------------
(* The device, external: it carries out a request it can read, once, or    *)
(* answers with the error bit.                                             *)

Waiting ==
    /\ access # Nothing
    /\ BigEndian(access.doorbell) = AccessAddr
    /\ BigEndian(access.control) \notin {0, FW_CFG_DMA_CTL_ERROR}

Answer(v) == access' = [access EXCEPT !.control = [k \in 1 .. 4 |-> IF k = 4 THEN v ELSE 0]]

DmaServe ==
    /\ Waiting
    /\ \E k \in DOMAIN dir : /\ dir[k].name = "etc/ramfb"
                             /\ BigEndian(access.control) = Request(BigEndian(dir[k].select))
    /\ BigEndian(access.address) = CfgAddr /\ BigEndian(access.length) = CfgLength
    /\ display' = [f \in DOMAIN cfg |-> BigEndian(cfg[f])]
    /\ Answer(0)
    /\ UNCHANGED <<rpc, dir, frames, buf, fb, cfg>>

DmaFails ==
    /\ Waiting
    /\ Answer(FW_CFG_DMA_CTL_ERROR)
    /\ UNCHANGED <<rpc, dir, frames, buf, fb, cfg, display>>

-----------------------------------------------------------------------------
\* The address fb_put_pixel and fb_fill_rect write for a pixel of the screen.
PixelAt(x, y) == fb.addr + y * fb.pitch + x * 4

\* Once the kernel draws, each of its pixels is the one the device shows at
\* that place, and lies wholly in the frames taken for it.
DisplayMatches ==
    rpc = "done" /\ fb.present =>
      \A x \in 0 .. fb.width - 1, y \in 0 .. fb.height - 1 :
        /\ x < display.width /\ y < display.height
        /\ PixelAt(x, y) = display.addr + y * display.stride + x * RAMFB_BPP
        /\ PixelAt(x, y) >= buf.addr
        /\ PixelAt(x, y) + RAMFB_BPP <= buf.addr + buf.frames * PMM_FRAME_SIZE
=============================================================================
