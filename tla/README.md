# Verification of the DAF proof of concept

TLA+ models, TLC runs and TLAPS proofs of the firmware in `src/`: a *Dispositivo
Autorizador Fiscal* (DAF), a device that authorises fiscal documents for a
point-of-sale program (PAF), keeps the authorisations until the tax office (SEF)
has them, and is registered, put in another operation mode and removed by signed
messages of the SEF that the PAF carries.

The names in the models are those of the source (Portuguese). Paths below are
relative to `src/src/`.

## The system

| Component | State | Operations | Interacts with |
|---|---|---|---|
| Main loop (`main.cpp`) | none of its own | read one request, `processaPedido`, send the answer if the status is `SUCESSO` | PDAFCDC, DAF |
| DAF (`daf.cpp`) | `last_msg`, `nonce` (RAM); everything else in the two memories | fifteen requests behind one gate | MemoriaSegura, MemoriaDeTrabalho, CriptoDAF, JWT, JSONDAF |
| MemoriaSegura (`memoria/memoria_segura.*`) | guards `ESTADO`, `EM_PROCESSO`, `REGOK`, `NUM_DFE`, `MAX_DFE`, `MAX_DFE_MODEL`; counter, mode, keys (NVSRAM) | read and write one value | DAF, MemoriaDeTrabalho |
| MemoriaDeTrabalho (`memoria/memoria_de_trabalho.*`) | bitmap of sectors, `iSectorWrite` (NVSRAM); sectors (flash); guard `NUM_DFE` | add, remove (by identifier, by digest), exists, read, reset | DAF, FlashExterna, MemoriaSegura |
| FlashExterna (`memoria/flash_externa.*`) | 4096 sectors of 4 KiB | read, write (erases first) | SPI controller |
| AlocadorRing (`memoria/alocador_de_memoria.h`) | position in a 10 KiB ring | allocate | DAF, JSON, JWT |
| ARQ (`com/arq.*`) | IDLE/WAIT, `seq_tx`, `seq_rx`, retries, message kept for retransmission | send, receive, timeout; `g_timeout` is set by an interrupt | Enquadramento, TimerMaxim |
| Enquadramento (`com/enquadramento.*`) | byte machine, buffer, timer; `g_timeout` is set by an interrupt | feed bytes, frame, timeout | USBCDC, TimerMaxim, ARQ |
| USBCDC (`com/usbcdc.*`) | event flags, `configured`, `remote_wake_en` | interrupt callbacks, read, write, show one event | vendor's USB library, main loop |
| PDAFCDC (`com/pdafcdc.*`) | the two layers above | possuiJson, send | main loop |
| TimerMaxim (`timer/timer_maxim.*`) | pool of hardware timers | open, close, enable | ARQ, Enquadramento |
| Timer (`timer/timer.*`) | slots of callbacks, count | add, remove, interrupt | its test only |
| JSONDAF, JSON, JWT, Base64URL (`utils/`) | none | parse, serialise, check | DAF |
| CriptoDAF (`cripto/`), MaximLED | vendor libraries and peripherals | | |

Only two things run besides the main loop: the timer interrupts (a flag and a timer that is
closed; for `Timer`, its table) and the USB callbacks (flags, and what they tell the library). The requests themselves never overlap, so the hard part of
the application layer is not threads but **sequences** (the PAF may send any
request at any time, repeat it, or deliver an old SEF message late), **power**
(part of the state is in NVSRAM, part in RAM) and **partial failure** (handlers
store values before the last thing that can fail).

What makes each part correct:

* DAF: a process (registration, removal, change of mode) is two messages. The
  second checks `EM_PROCESSO` and the signature, and neither the state nor what is
  retained. It is safe only because of the gate at the top of `processaPedido` and
  the checks of the first message. Nothing retained may be orphaned (by a removal,
  another SEF key, another mode); `BLOQUEADO` must mean "full"; numbers of
  authorisations are never reused.
* MemoriaDeTrabalho: it behaves as a bounded set, though `remove` also matches
  sectors that are not in use, the write position goes round, and each operation
  is several writes to two memories.
* ARQ: each message is delivered at most once and in order, and both sides end up
  in IDLE, with loss, duplication, timeouts and retries.
* Enquadramento: a frame is delivered whole or not at all, and the machine always
  comes back to its first state.
* AlocadorRing: buffers alive at the same time do not overlap.
* Timer, TimerMaxim: a slot is used by one callback and comes back after use; the interrupt
  may fall inside `add_callback` and `clear_callback`.
* USBCDC: the class driver is configured only while the bus is.
* Base64URL, JWT: what is encoded is decoded, nothing is written outside a buffer, and a
  payload is believed only if it was signed with the key.

## Modules

| Module | What it is |
|---|---|
| `DAF` | The application layer over MemoriaSegura and the interface of MemoriaDeTrabalho; properties at its end |
| `DAF_proofs` | Inductive invariants of `DAF` and the theorems |
| `MCDAF` | Instance of `DAF` for TLC (symmetry of digests, nonces and SEF keys) |
| `MemoriaDeTrabalho` | The working memory, one step per write |
| `ConjuntoRetido` | What it promises: a bounded set of authorisations |
| `MemoriaDeTrabalho_proofs` | Its inductive invariants, its theorems and the refinement, proved |
| `MCMemoriaDeTrabalho` | Instance of `MemoriaDeTrabalho` for TLC |
| `Arq` | The stop-and-wait layer with its timers, a PAF and two channels |
| `EntregaEmOrdem` | What it promises to who sends: once each, in order, confirmed after arrival |
| `Arq_proofs` | Its inductive invariants, its theorems and the refinement, proved |
| `MCArq` | Instance of `Arq` for TLC |
| `CortesDAF` | `DAF` over the sectors of the working memory, with the power going away between two writes of a handler |
| `CortesDAF_proofs`, `MCCortes` | Its theorems; its instance for TLC |
| `Enquadramento`, `MCEnquadramento` | The byte machine in the passes of `possuiJson`, its timer and the pool; its instance |
| `Enquadramento_proofs` | Its inductive invariant and its theorems |
| `AlocadorRing` | The ring allocator, and the buffers each handler asks for, fills and reads |
| `Timer` | The software callbacks with the interrupt at any step |
| `USBCDC` | The USB interrupt callbacks and the event flags |
| `TamanhosB64`, `Base64URL` | The sizes; the encoder and the decoder, one block at a time |
| `JWT` | Generation and verification of tokens, as parts with a size and a content |
| `AlocadorRing_proofs`, `JWT_proofs` | Their theorems |
| `Apoio_proofs` | The theorems of `USBCDC`, `Timer` and `Base64URL`, and the types of the five support components together |
| `MCApoio` | Instance of the last six components for TLC |

`DAF` uses the working memory through `MTAdiciona`, `MTRemove`, `MTReseta` and
`Retida`, that is, as the set that `ConjuntoRetido` specifies and that the run `mt`
shows `MemoriaDeTrabalho` to implement when no power cut falls inside an
operation. When one does, the two cannot be told apart from the handlers that call it:
`CortesDAF` has the bitmap, the flash, the position and `NUM_DFE` themselves.

### DAF

State: `estado`, `emProcesso`, `regOK`, `numDFE` are guards; `contador`, `modo`, the
four keys and `retidas` are the rest of the non-volatile state; `lastMsg` and
`nonce` are the members of the DAF object. `resp` is the last answer. `iniciado`
is history: the process whose first message was accepted and which has neither
been confirmed, cancelled nor wiped by the factory reset. It is never read.

| Action | Handler in `daf.cpp` |
|---|---|
| `Registrar`, `ConfirmarRegistro` | `processaRegistrar`, `processaConfirmarRegistro` |
| `RemoverRegistro`, `ConfirmarRemocao` | `processaRemoverRegistro`, `processaConfirmarRemocao` |
| `AlterarModo`, `ConfirmarAlterarModo` | `processaAlterarModoOperacao`, `processaConfirmarAlterarModoOperacao` |
| `SolicitarAutenticacao`, `AutorizarDFE` | `processaSolicitarAutenticacao`, `processaAutorizarDFE` |
| `ApagarAutorizacaoRetida`, `ApagarDesconhecida` | `processaApagarAutorizacaoRetida`, identifier found or not |
| `DescarregarRetidos`, `ConsultarInformacoes` | `processaDescarregarRetidos`, `processaConsultarInformacoes` |
| `AtualizarSB`, `AtualizarCertificado` | `processaAtualizarSB`, `processaAtualizarCertificado` |
| `CancelarProcesso`, `PadraoDeFabrica` | `processaCancelarProcesso`, `processaPadraoDeFabrica` |
| `ForaDeOrdem` | a request the gate refuses |
| `PedidoInvalido` | text that is not a request |
| `Queda` | a power cycle between two requests |

Each action is a whole handler with all its exits. `Res...` operators give the answer of
the checks in the order in which the code makes them; a handler that stores a value and
then fails keeps what it stored (`chavePriv` in `Registrar`, `chaveSEF` in
`ConfirmarRegistro`, `nonce` in `RemoverRegistro`, `contador` in `AutorizarDFE`).

Abstractions. A token is the key it was signed with and the point at which its parsing
stops. A signature made with the right key verifies, one made with another does not. A
request of the PAF is the digest, nonce and key its HMAC was made with. Descriptive
values (CNPJ, model, certificate text, SB version) are left out: they are
stored and read back and decide nothing. Any request may arrive at any time; any of the
keys may have signed it, so a message of the SEF may be old, repeated or meant for
another registration. A failure of the cryptographic library or of the allocator is a
choice of the environment.

### MemoriaDeTrabalho

State: `temDado` is the bitmap, `flash` the content of the sectors, `iSectorWrite` and
`numDFE` as in the code. `op` is the operation in course and its next write, `ret`
what the last one returned. `usados` and `confirmadas` are history.

| Actions | Code |
|---|---|
| `Adiciona`, `Avanca`, `Esgota`, `Marca`, `Grava`, `GravaFalha`, `Conta` | `add_autorizacao_DFE` and `sector_set_data`: the limit, the loop, the bit, the flash, the count |
| `RemovePorId`, `RemovePorResumo`, `Desconta` | the two `remove_autorizacao_DFE` |
| `Reseta`, `Posiciona`, `Zera` | `reseta` |
| `Queda` | a power cut between two writes, or during a flash write |

The caller's part is in the guards: an authorisation is new (its identifier is the HMAC of a
new counter value) and its digest is asked for first; a removal by identifier follows a
successful `existe_autorizacao_DFE`.

Four next-state relations ask four questions: `Next` (the DAF's use, no failure),
`NextQueda` (power cuts), `NextFalhas` (and failing flash writes), `NextResumo` (the overload
that removes by digest, called by tests only).

### Arq

State: `estado`, `seqTx`, `seqRx`, `tentativas`, `enviada` are the members of ARQ
(`enviada` is the buffer kept for retransmission, with its control byte); `gTimeout`
and `timerId` its static variables; `timers` the hardware timers, free, counting, or expired
and not closed. `passo` is the place of the main loop in a pass of `possuiJson`. The
channels are sequences. `processados`, `entregues` and `desistiu` are history.

| Action | Code |
|---|---|
| `Temporizador` | `timeout_handler`, with `mecanismoDeRetransmissao` (`Retransmite`) |
| `Leitura` | the rest of a pass: no frame, or one frame through `wait` or `idle` (`RecebeAck`, `RecebeNovo`, `RecebeRepetido`), the request processed and its answer handed to `receiveFromAPIDAF` |
| `Expira` | the interrupt `handle_timeout`, between any two steps |
| `PafEnvia`, `PafRepete`, `PafRecebe` | the PAF (external) |

A step of the loop is atomic for the interrupt because the interrupt only sets the flag and
closes `timer_id`: wherever it falls inside a step, the result is the one of falling before or
after it. Between the test of the flag and the frame of the same pass it does make a
difference, and there it is a step of its own.

External assumptions. `mml_tmr_get_free_timer` returns a timer that is not in use, and a
one-shot timer that expired is in use until it is closed; closing the id -1 does nothing. The PAF
numbers, acknowledges and repeats as stop and wait asks, and does not give up. USB neither
reorders nor duplicates; a frame is lost when the framing of either side discards it.

### CortesDAF

State: that of `DAF`, and `temDado`, `flash` and `iSectorWrite` of the working memory, of
which `retidas` is now a function (`Conteudo`: what `existe_autorizacao_DFE` finds).
`numDFE` is written on its own and may differ from it. Each handler that writes more than one value
has the list of its writes, in the order of the code: `OrdemRegistrar`, `OrdemRegistro`,
`OrdemRemocao`, `OrdemModo`, and, through the working memory, `OrdemAutorizar` (the counter, the
position, the bit, the flash, `NUM_DFE`, the state), `OrdemApagar` and `OrdemFabrica`.

| Action | Code |
|---|---|
| `CortaRegistrar`, `CortaRegistro`, `CortaRemocao`, `CortaModo` | the handlers that do not write the working memory, cut after any of their writes but the last |
| `Autoriza`, `CortaAutorizar` | `processaAutorizarDFE` of a new document with `add_autorizacao_DFE`, complete and cut |
| `AutorizaSemSetor`, `CortaProcura` | its loop that ends without a sector, or is cut: cut additions leave marked sectors that `NUM_DFE` does not count |
| `Apaga`, `CortaApagar` | `processaApagarAutorizacaoRetida` with `remove_autorizacao_DFE` |
| `Fabrica`, `CortaFabrica` | `processaPadraoDeFabrica` with `reseta` |
| `PedidoQueMuda`, `Queda` | the actions of `DAF` that leave the working memory alone, but for requests that change nothing |

A cut starts the device again: `last_msg` is lost, `nonce` is whatever the memory holds. Two
writes take long and are cut themselves: that of a flash sector (old content, new content or
noise) and the `memset` of the bitmap (any number of sectors from the lowest). `interrompida` is
history, as are `escritos` (the sectors written since the counter was last cleared) and `cortes`,
which bounds the cuts in the instance.

What the model shows besides its properties. A cut registration whose `EM_PROCESSO` was cleared
and whose mode was not written keeps the previous mode. A cut between the removal of an
authorisation and the state (daf.cpp:743-752) may leave `BLOQUEADO` with nothing retained: only
the factory reset helps then. A cut between the bit and the flash of an addition
(memoria_de_trabalho.cpp:43-45) makes what the sector held valid again: an authorisation that was
removed, with the number and the document it had. A cut before `NUM_DFE` leaves it below the marked
sectors; removing all of them then takes it below zero, to 2^32 - 1, and the memory counts as full
with nothing in it.

### Enquadramento

`enq` holds the members of the object and the pool of timers; `usb` the bytes that wait;
`ambiente` what is assumed of the PAF and of the loop. *Contained*: the PAF writes a frame
only when the device has taken the one before, or has forgotten one that was cut short.
*Punctual*: the loop reads the bytes that wait before the 500 ms of the timer go by.

| Action | Code |
|---|---|
| `Temporizador` | `timeout_handler` |
| `Leitura` | `le_usb`: the chunk through `handle_fsm` (`Idle`, `Tamanho`, `Rx`) |
| `Entrega` | `getLenDados`, `sendToArq`, `zeraVariaveis` |
| `Expira` | the interrupt `handle_timeout` |
| `PafEscreve`, `PafInterrompe` | the PAF, which may stop inside a frame (external) |
| `PafVazio` | the PAF announces a frame of size zero; one that is not contained (external) |

`buffer_dados` has 4000 bytes and `dados_arq` 3500 (enquadramento.cpp:14, pdafcdc.cpp:36), and the
code compares neither with the size that the frame announces, which may be zero and then stands for
2^32: the sequences of the model have no bound, and what is written and copied past the ends of
the buffers is not modelled.

### AlocadorRing

A request is a list of buffers: bytes asked for, bytes written, and how many of its first
bytes are still read while each of the following buffers is filled. The lists are those
of the handlers of `daf.cpp`, with the sizes of the buffers written there. `Aloca` is
`allocate`; `Atende` is the next request, with the ring where the last one left it (a
handler may return before its last buffer). A fragment may have any size that the code can keep, 1
to 2932 bytes; one of a single byte is refused by `b64url_encode` (`Recusado`).

### Timer

`add_callback` is `Adiciona`, `Guarda`, `LeContagem`, `Soma`, `Inicia`; `clear_callback` is
`Retira`, `LeContagem`, `Subtrai`. `Interrompe` (`internal_handler`) falls between any two of
them. `callbacks_n++` is a load and a store. The module shows two facts of the code
that the comments do not tell: a callback that expired is not taken out of its slot,
though timer.cpp:32 says so ("remove o callback": only the local copy of the pointer is
cleared), so it is called again and `callbacks_n` counted down again at every period, and
the count wraps. This is why the properties speak of the time until the first expiry.
Only tests use this component.

### USBCDC

One action per event of `event_callback` (`TiraCabo`, `PoeCabo`, `Reinicia`, `SuspendeUsb`), per
request of the host (`Configura`, `Descarta`, `Desperta`), for bytes that arrive
(`Recebe`), and for the main loop (`Mostra`, `LeUsb`). The library is external:
it delivers only the events that are enabled, and lets the host talk only to a device
that is connected. Nothing in the repository reads `configured`. `esvazia_leitura` discards at
most 128 bytes; only test_usbcdc_tempo.cpp calls it.

### Base64URL and JWT

`Base64URL` is one call of `b64url_encode` or `b64url_decode`: the refusal, a block of the loop at
each step, the end. `extremo` is how far the output buffer was written. `JWT` has
tokens as sequences of parts, each with its number of characters and what it
decodes to; a signature is the pair of key and message. `Gera` is the three
generators with the position of every byte they write, `Verifica` the three
verifications, `VerificaJWE` the one that takes the SEF key out. `Altera` is what the link may do:
replace a part by that of another token, cut, append, or spoil it. ES256 and ES384 ignore what
decoding the signature returned, so what they compare may be any signature that the stack still
held. `verificaTokenJWE` does not use the private key, and accepts a key shorter than the
buffer, of which the rest stays uninitialised (jwt.cpp:362).

## Runs

| Run | Specification | Shows |
|---|---|---|
| `daf` | `Spec` | While the device stays powered: the process that is open is the one the gate believes (`ProcessoCoerente`); a device without registration retains nothing (`InativoNaoRetem`); `BLOQUEADO` exactly at `MAX_DFE` (`BloqueioCoerente`); what is retained belongs to the SEF key and mode in force (`RetidasDoRegistroAtual`); a confirmation ends the process of its own kind (`ConfirmacaoDoProcessoIniciado`) |
| `daf_queda` | `SpecQueda` | With power cycles at any point of a process: types, `NUM_DFE` against the working memory (`ContagemCorreta`), one number and one authorisation per document (`NumeracaoUnica`), keys present outside `INATIVO` (`RegistradoTemChaves`), numbers only grow (`NumeracaoCrescente`) |
| `mt` | `Spec` | Types, `NUM_DFE` equal to the sectors in use between operations, a removal leaves no copy, and the memory implements `ConjuntoRetido` |
| `mt_queda` | `SpecQueda` | A confirmed authorisation survives any power cut (`Duravel`); an addition is refused only when `NUM_DFE` is at the limit or every sector is in use but the one the position has come to (`RecusaJustificada`), also after cuts have marked sectors that are not counted |
| `arq` | `SpecJusta` | Types; requests are processed once, in order, and confirmed only then (`ImplementaEntrega`); answers never arrive twice or out of order (`RespostaUmaVez`); if none was given up, back in IDLE the last one arrived (`RespostaConfirmadaChegou`); a wait is watched by a timer (`EsperaVigiada`) and ends, unless no hardware timer was free (`EsperaTermina`) |
| `daf_cortes` | `SpecCortes` | With power cuts inside the handlers and inside the operations of the working memory: the numbers given since the counter was last cleared stay unique and below it, also those of removed authorisations that a cut makes valid again (`NumeracaoComCortes`); a confirmation that was cut can be repeated, or is complete but for the mode (`ConfirmacaoRepetivel`); nothing is authorised with an erased SEF key while the PAF key is in force (`AutorizaComChaveSEF`) |
| `enq` | `SpecJusta` | Types; for a contained PAF and a punctual loop, ARQ gets the whole frames, in order (`QuadrosFieis`) and all of them (`QuadrosChegam`), and framing holds one timer at most and none between frames (`SemVazamento`); in any environment a frame that stops, or that announces size zero, is forgotten (`VoltaAoRepouso`) unless the pool had no timer |
| `apoio` | `SpecApoio` | Types, and blocks inside the ring; filling a buffer destroys nothing that the handler still reads, but for two losses of the answer to DescarregarRetidos that the property delimits (`DadosVivosIntactos`); until the first expiry the count of callbacks is right wherever the interrupts fall (`ContagemAteExpirar`) and some callback is called (`AlgumDispara`); a configured USB device has its cable, and the class driver is configured only with it (`ConfiguradoConectado`); Base64URL gives back what it got (`IdaEVolta`) and writes inside its buffer but for two boundary cases (`EscritaDentro`); only what was signed is believed (`Autentico`), what was not touched is accepted (`IntactoAceito`), and the calls of `daf.cpp` give every token its room (`CabeNasChamadas`) |
| `daf_recem`, `daf_confirma`, `arq_timers`, `enq_tamanho` | | disagreements, see Findings |

Bounds.

* `MAX_DFE = MAX_DFE_MODEL = 2` with three digests: the device becomes full, refuses,
  and comes back by a removal; a third document waits for room. The code sets both
  guards to 5 (daf.cpp:1243-1245), so the full memory is met exactly when
  the device is blocked.
* `LimContador = 3` bounds the numbers given before a factory reset: enough to fill
  the memory, erase one and authorise again under a new number.
* Two SEF keys (an old and a new registration), one PAF key and one device key
  (their only roles are "right" and "never written", which is `ChaveZero`), two
  certificates (the factory one and another), two nonces (right and stale).
  Digests, nonces and SEF keys are only compared for equality, hence the
  symmetry; these runs have no liveness property.
* Working memory: 4 sectors (3 with power cuts) and 2 authorisations at a time, so
  that the write position passes used sectors, wraps, and leaves stale copies on both
  sides of the live ones; documents with two identifiers each (erased and
  authorised again); `ModNum = 8` gives `NUM_DFE` a width it can wrap.
* States: `daf` about 10 thousand distinct, `daf_queda` 118 thousand, `mt` 293
  thousand, `mt_queda` 455 thousand, `arq` 0.5 million.
* Link: three requests (both numbers used and one used again, which is what a
  stale frame needs), two frames in transit in each direction, the three attempts of the
  code, two timers. The safety properties also hold with four requests, three frames and
  three timers (6.6 million states). `Timers` is a set because the pool of the chip is
  not in the repository; `EsperaTermina` and `EsperaVigiada` say what happens when it runs
  out. The run uses no symmetry, as it has a liveness property.

* Cuts: three sectors, one authorisation retained at a time (both limits are 1), numbers up to 4,
  two digests, one key of each kind (the properties ask only whether the SEF key is there), one
  mode, one nonce; two cuts, each after any write of any handler. Three sectors hold a live
  authorisation, a stale one and a free place, so a cut can bring a stale one back beside the live
  one; the second cut falls on what the first has left; after two cut additions a third fills the
  memory, and the fourth finds no sector. `ModNum = 4` lets `NUM_DFE` wrap. The states are compared
  by what the device keeps and by the gate (`Visao`), as nothing reads the last answer or
  `iniciado`. 0.21 million states.
* Framing: bytes have four values (`Base`): nothing, the two commands, and another, which
  are also what the bytes of a size may hold; data of one byte and of four, whose size takes both
  bytes, and frames of size zero; three frames of a contained PAF (cut, then whole, then whole),
  two of any other; chunks of up to twelve bytes, so that a frame comes in any number of pieces or
  two frames in one; two hardware timers. 0.62 million states.
* Support: the ring has its 10240 bytes and the buffers the sizes of `daf.cpp`, with a fragment
  for each case: refused (1), without its terminator (7), the smallest and the largest that keep
  everything (8 and 2537), and the largest the code keeps (2932). Two callbacks
  with timeouts of one and two periods, in three slots, and a count modulo 4; inputs of
  Base64URL of up to four bytes and texts of up to five characters, of every length
  modulo 3 and 4, with the first, middle and last of the alphabet; three tokens in
  circulation, two keys, two payloads, the three calls of `daf.cpp` (AlterarModo,
  RemoverRegistro, RegistrarDAF) with their buffers. One component moves at a
  time, as they share no state (`foco`). 0.49 million states.

Deadlock is checked in every run but `apoio`: each component can always accept another
operation. In `apoio` a call of Base64URL ends.

Fairness. `arq` and `enq`: weak fairness of the steps of the main loop, which never blocks,
and of the expiry of each timer that counts. Nothing is asked of the PAF or of the channels,
which may lose everything or stop inside a frame. `apoio`: the call of `Timer` that began
goes on (the main loop finishes it), and the hardware timer, while it is enabled,
interrupts. The other modules have safety properties only: they do nothing
without a request.

## Findings

Each is a run that ends in a violation, with a property quoted from the repository.

* `daf_recem`: README.md:96 says that a device put in the factory state behaves as newly
  acquired; the factory reset
  leaves `EM_PROCESSO` set if the power went away during a process, so the next
  confirmation is processed without a first message.
* `daf_confirma`: "verifica se o processo foi iniciado" (daf.cpp:853) tests
  `EM_PROCESSO`, which survives a power cycle while `last_msg` does not; afterwards a
  confirmation of another process succeeds.
* `arq_timers`: the interrupt closes `ARQ::timer_id`, which is another timer than the one that
  expired when a timeout fired just before the right ACK; the expired one stays taken. One is lost
  each time, until `enable_callback` finds none and an answer waits without a timeout.
  test_timer_maxim.cpp:30-31 asserts that it returns a timer.
* `enq_tamanho`: `le_usb` feeds the rest of the chunk to the byte machine after a frame is
  complete; the bytes of the next frame change `campoTamanho`, which `getLenDados`
  then returns for the first (enquadramento.h:126). It takes a PAF that writes again
  before it is answered; stop and wait makes that a repetition.

Further divergences, each shown by a configuration that is not in the list of runs
(`tlc -config X.cfg M` ends in a violation):

| Configuration | Module | What it shows |
|---|---|---|
| `MCDAF_fabrica.cfg` | `MCDAF` | README.md:96 says that the factory reset is possible at any moment; the gate refuses message 9999 while a process is open |
| `MCMemoriaDeTrabalho_contagem.cfg` | `MCMemoriaDeTrabalho` | With a power cut between the bitmap and `NUM_DFE` they disagree, and nothing recomputes the count at start |
| `MCMemoriaDeTrabalho_flash.cfg` | `MCMemoriaDeTrabalho` | `add_autorizacao_DFE` returns true after the flash write failed |
| `MCMemoriaDeTrabalho_resumo.cfg` | `MCMemoriaDeTrabalho` | The removal by digest may clean a stale sector and leave the live one; only the tests call it |
| `MCCortes_fabrica.cfg` | `MCCortes` | Numbers that a factory reset has cleared from the counter are given again beside the authorisations that carry them (`NumeracaoUnica`): either the reset was cut after the counter (daf.cpp:1219) and before the working memory (daf.cpp:1250), or it was complete and a cut between the bit and the flash of an addition brings an old authorisation back |
| `MCApoio_descarga.cfg` | `MCApoio` | `TudoSeparado`, which is `DadosVivosIntactos` without its exceptions: a fragment of 2538 bytes or more, read back where the ring is about to wrap, is encoded over the fields from which the answer is made |

Smaller ones, met while modelling and not stated as a property: the encoded digest of
`processaDescarregarRetidos` gets its terminator at index 43 of an array of 43
(daf.cpp:1095-1099, base64url.cpp:69); test_daf.cpp:484 expects a member `aut` in an
answer that never has one; `getMensagemJSON` leaves the size of the certificate unset
(daf.cpp:1034), either outcome being a legal answer; `RemoverRegistro` overwrites
the nonce of an authentication in course even if it then fails (daf.cpp:815), so that the
PAF has to ask for another.

## Proofs

`DAF_proofs` proves, for every value of the constants that satisfies
`LimitesAssumption` (`MaxDFE` positive and at most `MaxDFEModel`) and
`ChavesAssumption` (the zero key is none of the SEF, PAF or device keys; the factory
certificate is a certificate), all ten properties of the runs `daf` and `daf_queda`.

| Theorem | Specification | Argument |
|---|---|---|
| `TipoCorreto`, `ContagemSempreCorreta`, `NumeracaoSempreUnica` | `SpecQueda` | together, as `InvRetencao == TypeOK /\ ContagemCorreta /\ NumeracaoUnica` |
| `NumeracaoSempreCrescente` | `SpecQueda` | action property, from the type invariant |
| `RegistradoSempreTemChaves` | `SpecQueda` | `InvChaves` |
| `ProcessoSempreCoerente`, `InativoNuncaRetem`, `BloqueioSempreCoerente`, `RetidasSempreDoRegistroAtual`, `ConfirmacaoSempreDoProcessoIniciado` | `Spec` | `InvLigado` |

Why the strengthenings. *Types* are not inductive alone: `numDFE - 1` is a natural
number only because a removal takes an element of `retidas`, whose cardinality
`numDFE` is. *Counting* needs that the added authorisation is new, which is
`NumeracaoUnica` (its number is above every retained one). `RegistradoTemChaves` needs
that an open process implies a private key in place (`InvChaves`), since
`ConfirmarRegistro` and `ConfirmarAlterarModo` after a power cycle may close a process
they did not open. The properties of a powered device need one
another: `RetidasDoRegistroAtual` is kept by `ConfirmarRegistro` because
`ProcessoCoerente` says that the state was `INATIVO`, and `InativoNaoRetem` then says that
nothing is retained; `InativoNaoRetem` is kept by `ConfirmarRemocao` because
`ProcessoCoerente` says that nothing was retained since the first message;
`BloqueioCoerente` needs the count. To them `InvLigado` adds `emProcesso => iniciado =
lastMsg`, which ties the history to the gate.

The proof is organised by what an action touches: `EfeitoNaMemoria` reduces the
actions to "adds one", "removes one", "empties" and "leaves alone" before counting
and numbering are proved; `PassoEmProcesso` reduces a step taken while a process is open
to the few that the gate lets through.

The other proof modules:

| Theorem | Specification | Argument |
|---|---|---|
| `MemoriaDeTrabalho_proofs`: `TipoDaMemoria` | `SpecQueda` | `InvTipo`: the types, and that an authorisation being added is one of those used |
| `SempreDuravel` | `SpecQueda` | `Guardadas`: what was confirmed is in a sector that the write in course does not touch (`Duravel` alone is not inductive: the sector in course could be the only copy) |
| `RecusaSempreJustificada` | `SpecQueda` | `Passados`: during the loop, the sectors the position has left behind are in use, as many as it has counted; when it ends, all but one have been passed, and they are those below and above it, round the ring |
| `ContagemSempreCerta` | `Spec` | `Contagem`: what `NUM_DFE` is at each step, with `LimpaVivo` (below) for the removal |
| `RemocaoSempreEfetiva` | `Spec` | `EscritosEmOrdem`: the sectors written since the last reset are those below a bound, each with an authorisation of its own; what comes from before the reset lies above. Hence `LimpaVivo`: the lowest sector that matches is the live one, and the only one |
| `MemoriaImplementaConjunto` | `Spec` | `EfeitoNoConjunto`: a step inserts, removes, empties or stutters; the insertion has room by `Contagem`, and nothing alike by `EscritosEmOrdem` (identifier) and `SemSemelhante` (digest) |
| `CortesDAF_proofs`: `SempreAutorizaComChaveSEF` | `SpecCortes` | `SEFSeguraPAF`: an erased SEF key comes with an erased PAF key. It rests on the order of the writes: the registration stores the SEF key first, the removal erases it second |
| `NumeracaoUnicaComCortes` | `SpecCortes` | `NumerosEscritos`: the sectors written since the counter was cleared, marked or not, have different numbers, none above the counter. It asks nothing of the bitmap, so no cut that revives a sector can break it; an addition, cut or not, writes a number that was taken before |
| `ConfirmacaoSempreRepetivel` | `SpecCortes` | With `SemPortao` (the gate lets every request in after a start), and what each prefix of the writes of a confirmation leaves |
| `Arq_proofs`: `TiposDaLigacao`, `EsperaSempreVigiada` | `Spec` | `InvTipo`, below |
| `EntregaImplementada` | `Spec` | `InvPedidos`, below: a step of the link processes the next request, confirms it, sends one, or stutters |
| `RespostasUmaVez`, `RespostasConfirmadas` | `Spec` | `InvRespostas` and `SemDesistencia`, below |
| `Enquadramento_proofs`: `TiposDoEnquadramento` | `Spec` | Any environment: the types, and that the count of data bytes never passes the bytes written |
| `NenhumTimerPerdido`, `QuadrosSempreFieis` | `Spec` | `EmOrdem`, below |
| `AlocadorRing_proofs`: `BlocosSempreDentro` | `SpecRing` | The types of the ring, and the lemma that no handler asks for more than the ring has (`PedidosCabem`), from `AlocadorAssumption` |
| `DadosSempreIntactos` | `SpecRing` | `Encadeados`: each block of a request follows the one before it, or the ring has just wrapped; and `Folga`: a block that is still read leaves the ring room for those filled meanwhile. A fragment is of one of four kinds: refused, with room for everything, without its terminator (`SemTerminador`), too large to lie beside the authorisation (`SemEspaco`). Assumes the sizes of the code (`TamanhosDAF`): a ring of at least 10240 bytes, fragments of 1 to 2932 |
| `JWT_proofs`: `SempreAutentico` | `SpecJWT` | Every part in circulation is a header, a payload or garbage, or a signature that was made; a signature names its key and its message, so what is accepted was signed |
| `SempreCabe` | `SpecJWT` | No invariant but itself: each call needs three encoded parts, two dots and a terminator, and its buffer has them. Assumes that the calls are those of `daf.cpp` (`ChamadasDAF`) |
| `IntactoSempreAceito` | `SpecJWT` | Action property: what a verification answers depends on the token alone when nobody touched it |
| `Apoio_proofs`: `ConfiguradoSempreConectado`, `SemCaboSempreSoCabo` | `SpecUsb` | `SoComCabo`: connected only with the cable; without it only the events of the cable are enabled. The second theorem (no bus event is delivered without the cable) is proved and not run |
| `ContagemSempreAteExpirar` | `SpecTimer` | `ContagemNoPasso`: at each step of `add_callback` and `clear_callback`, how far the count is behind the table, and that what was loaded is still the count |
| `SempreIdaEVolta`, `EscritaSempreDentro` | `SpecB64` | `Codificando`, `Codificou`, `Decodificando`: the blocks already used made as many characters (bytes), and the right ones. The arithmetic of a block (four digits of base 64 against three of base 256) and the inverse table are lemmas |
| `TiposDoApoio` | `SpecApoio` | The invariants above together. Assumes a token of AlterarModo in the instance (`TokensHS # {}`): while another component moves, the ring waits with a request of that handler |

`MemoriaDeTrabalho_proofs` uses `TamanhosAssumption` (more than one sector, a limit below their
number, and `NUM_DFE` wide enough for it) and `AutsAssumption` (an identifier names
one authorisation).

*The link.* The types of `Arq` need `HaResposta`: a wait, a pending expiry or a timer
stands for an answer that was sent, so what is retransmitted has a number. A request is at
one of three points (`PorProcessar`, `PorConfirmar`, `Confirmado`), told by whether the PAF
waits, by the sequence numbers of both sides and by the length of what was processed; a
request in transit is the last, or a copy of the one before that comes first in the channel and
has the other number; an ACK with the number the PAF waits for is in transit only at
`PorConfirmar`, and after it comes none with the other number. That last clause is what one
bit of number rests on, and the order of the channel is what makes it hold.
The answers are not symmetric, since the device gives up after three attempts. `InvRespostas`
holds for ever: nothing in transit, nor the answer that may be repeated, is older than what the PAF
took, and the answer it took last would be recognised as a repetition. `SemDesistencia`
holds until an answer is given up: the last one is on its way, received, or confirmed, which the
numbers of both sides tell.

*Framing.* `QuadrosFieis` says nothing of a frame in course. `EmOrdem` does: at rest the machine
is blank and what was written whole was received; in course, the machine has taken exactly
the first `k` bytes of one frame, USB holds the bytes `k + 1` to `f` of the same frame, and
it is the one frame due to ARQ if `f` is its length; or it is complete and the loop is about to
hand it over. A timeout finds USB empty (the loop is punctual), so a frame written whole is
never forgotten. `UmByte` proves that a byte takes the machine from `k` to `k + 1`, through
the size (which is below the square of the base, so that two bytes hold it: `DoisDigitos`) and
the data; `ChunkDeQuadro` that a chunk of `n` bytes takes it to `k + n`. The induction over the
bytes of a chunk is done by hand, without the library's theorem: the set of positions where
the claim fails would have a least one (`MenorNumero`), and the position before it would do.

Only model-checked: liveness (`EsperaTermina`, `QuadrosChegam`, `VoltaAoRepouso`,
`AlgumDispara`) and what shows a disagreement. Every safety property and every
refinement of the passing runs is proved. Out of the prover's reach, and for TLC alone:
liveness under fairness, `ENABLED`, recursive operators.

## Not modelled

* Branches that cannot be taken: `serialize` returning 0 for a document that is not
  empty, states 4 and 5, `default` branches over codes that the parser has refused.
* A power cut in the middle of one value of the NVSRAM (the bitmap, which is cleared by a
  `memset`, is cut between its sectors).
* What framing does past the ends of `buffer_dados` and `dados_arq` (see Enquadramento).
* The composition of framing and ARQ, and a power cycle of the device while the PAF keeps its
  numbers: whether the PAF notices that the port is gone is not in the repository.
* Texts: JSON (its parsing is a choice of the request; its size bounds are in `JWT`),
  formatting, LED, SPI set-up. Cryptography other than ideal signatures: RSA, ECIES, key
  generation, random numbers and digests are calls of the vendor's library.
* Failures of `mml_tmr_init` and of the calls after it in `enable_callback`; failures of the
  initialisation of USB, after which the program stops.
* The 32-bit counter of authorisations wrapping after 2^32 (daf.cpp:589).
* The tests and the Unity framework (a third of the lines of the repository).

## Plan

1. Composition: PAF, link and DAF with retries end to end (an authorisation is numbered
   once even if the answer is lost); framing under ARQ. (DAF over the steps of the working memory
   is in `CortesDAF`, for what cuts reach.)
2. `Arq` with power cycles of one side, with a PAF that notices and with one that does not, and
   answers that were given up (what the PAF then takes for a repetition).
3. Proofs: the invariants of the compositions of 1 and 2.
