# CondoSphere backend: verification in TLA+

TLA+ models of the NestJS backend in `src/`, checked by TLC on small instances, with
theorems checked by TLAPS for every value of the constants. Paths below are relative to the
repository. Names in the modules are those of the code (Portuguese).

## 1. The system

A monolith of NestJS modules over PostgreSQL (TypeORM), Redis and RabbitMQ. HTTP controllers
turn requests into commands and queries (`@nestjs/cqrs`); one handler executes each. The
process is one event loop: a handler runs alone between two `await`s and interleaves with every
other handler at each of them. **Almost nothing is a transaction**: each `save()` and `query()`
commits by itself, except the two inserts that end a registration. What modules share is the database; the only asynchronous channel
is the outbox table, which a timer drains to RabbitMQ. The container restarts after a crash
(`docker-compose.yml`).

| Component | Where | State | Operations | What makes it correct |
|---|---|---|---|---|
| Outbox worker and publisher | `src/shared/messaging` | `auditoria.eventos_dominio_outbox` (publicado, tentativas), in-memory copies, the broker | `flushPendingEvents` every 2 s, `publish` | published only if delivered; nothing given up early; every event is eventually delivered or exhausted |
| Boleto aggregate | `src/modules/financeiro/domain` | the object and its uncommitted events | gerar, aplicarMultaJuros, confirmarPagamento, fromHistory | replay equals memory; one payment, last; penalty within 2% |
| Financeiro commands, event store | `src/modules/financeiro/application/commands`, `infrastructure/persistence` | `boleto_event_store`, outbox rows | gerar boletos do mês, confirmar pagamento | an answer is durable; redelivery is harmless; an error does not stop the others; announced = stored |
| Financeiro queries | `src/modules/financeiro/application/queries` | Redis cache (30 s), read model, two clocks | list, report | bounded staleness; a report that agrees with itself |
| Assembleias | `src/modules/assembleias` | assembleias, pautas, votos | criar, registrar voto, quórum | one vote per unit; answers tell the truth; the count of a closed pauta is final |
| Identity | `src/modules/identity` | tenants, users, roles, reset tokens | registrar cliente, login, refresh, reset | uniqueness, single-use tokens, an answered registration is whole, nobody locked out by a crash |
| Condomínios | `src/modules/condominios` | condomínios, unit and role rows | cadastrar | the creator can administer what was created |
| Comunicação | `src/modules/comunicacao` | comunicados, the channels | publicar, dispatch by channel | the saved report is true; no recipient is skipped because of another |
| Manutenção | `src/modules/manutencao` | chamados, outbox rows | abrir chamado | what is announced exists, what is answered is announced |
| Reservas, portaria, documentos | `src/modules/...` | none | none: scaffolds | – |
| Schema | `db/schema.sql` | tables, constraints, views, procedures | two procedures of financeiro, which no TypeScript calls | constraints decide the races |

Hard behaviours: flushes that overlap because `@Interval` does not await; copies of rows that
are stale when saved; read–check–write over several awaits; several statements of one use case
of which any may fail, commit without an answer, or never run because of a crash; webhooks and
clients that retry. `PROJECT.json` lists each at its line, with the properties that cover it.

## 2. Modules

| Module | Models | Kind |
|---|---|---|
| `Outbox` | `outbox-worker.service.ts`, `event-publisher.service.ts`, the outbox table; the refinement mapping to `OutboxEntrega` | specification |
| `OutboxEntrega` | what the outbox promises per event | abstract specification |
| `OutboxProofs` | theorems about `Outbox` and about `Manutencao`, its composition with a producer | proofs |
| `Boleto` | the aggregate as a value: events, `apply`, `fromHistory`, `round2` | operators |
| `BoletoAggregate` | the life of one aggregate: commands, save, load | specification |
| `BoletoProofs` | what the fold of `fromHistory` computes; theorems about `BoletoAggregate` | proofs |
| `Financeiro` | `GerarBoletosMesHandler`, `ConfirmarPagamentoHandler`, the event store, interleaved; composed with the replay of `Boleto` | specification |
| `CicloBoleto` | a boleto comes to exist, may be paid, stays paid | abstract specification |
| `FinanceiroProofs` | theorems about `Financeiro` | proofs |
| `Assembleia` | the three handlers of assembleias on their tables | specification |
| `Urna` | a ballot box: each unit votes once, a vote stays | abstract specification |
| `MCAssembleia` | symmetry | for TLC |
| `AssembleiaProofs` | theorems about `Assembleia` | proofs |
| `Cadastro` | registration, creation of condomínios, login and refresh on the tables of accounts and roles | specification |
| `MCCadastro` | symmetry | for TLC |
| `CadastroProofs` | theorems about `Cadastro` | proofs |
| `Senha` | the password reset: request of a token, mail, redefinition | specification |
| `MCSenha` | symmetry | for TLC |
| `SenhaProofs` | theorems about `Senha` | proofs |
| `Manutencao` | `AbrirChamadoHandler` composed with `Outbox` in one process | specification |
| `Comunicacao` | the publication of a comunicado: recipients, channels, report | specification |
| `MCComunicacao` | the users and units of the instance | for TLC |
| `ComunicacaoProofs` | theorems about `Comunicacao` | proofs |
| `Consultas` | the cached list of boletos and the financial report, against changing tables | specification |
| `MCConsultas` | the months, boletos and callers of the instance | for TLC |
| `ConsultasProofs` | theorems about `Consultas` | proofs |

How state corresponds to code:

* **Outbox.** `linhas[e]` is the row of event `e`; `publicado_em` goes with `publicado` and
  `erro` with `tentativas`. `lote[f]`, `copia[f]` and `pc[f]` are the array `pendentes`, its
  entities and the suspended `await` of flush `f`. `repo.save` of a loaded entity is two steps:
  TypeORM selects the row, compares, and updates the columns that differ (`LerLinha`,
  `GravarLinha`); between them another flush may write. `Aceitar` then `Confirmar` split a
  publish into the broker's acceptance and its answer, which can be lost (`PerderResposta`) or
  repeated (`Reenviar`). `FalharSave` is a rejected save, in the `try` (then the catch block
  runs) or in the `catch` (then the method rejects and the batch is dropped). A row is inserted
  by `Gravar`, the last statement of the use cases that have an event. `fracassos` and
  `disputa` are history: the attempts that really failed, and whether two flushes hold, or once
  held, copies of an event at the same time (`RegistrarDisputa`).
* **Boleto.** Cents and basis points; `round2` is exact half-up rounding (the binary error of a
  product that falls just under a half is left out). `CANCELADO` is never produced by an event.
* **Financeiro.** A boleto is `<<unidade, geracao>>`, because each call draws fresh uuids. Rows
  of the event store carry the version `save()` computed from what was loaded and the call that
  wrote them. A failing insert may have committed. The aggregate a handler holds is the set of
  rows it read (`lidos`); `ReplayEmQualquerOrdem` checks that this summary and the real
  `fromHistory` agree. The amount of each boleto (rateio) and the due date are left out.
* **Assembleia.** A pauta is `<<creation, item>>`. Time enters only as the set `encerradas`; a
  request may give an `encerramento` already in the past, so a pauta may close before it exists.
  The outbox insert of `CriarAssembleiaHandler` carries a text in a `uuid` column and always
  fails (`RecusarOutbox`). The total of units and the percentage of the view are left out, as is
  the refusal of an unknown `opcao`, which touches nothing.
* **Cadastro.** A registration `r` names the tenant, the user and the default condomínio it
  inserts. A step of `pcR`, `pcC`, `pcS` is a suspended `await`; `VerificarEmail`,
  `VerificarCnpj`, `SalvarTenant`, `SalvarUsuario` and `Vincular` are the statements of
  `RegistrarClienteHandler` in order, and the last is the transaction. `LoginHandler` and
  `RefreshTokenHandler` differ in how they find the user, not in the two queries that decide
  the roles, so a session stands for both. The only role these handlers grant is ADMIN_TENANT;
  `Admins` are the holders of a token with it, for whom `RolesGuard` opens the creation of a
  condomínio. Password hashes and the lifetime of tokens are left out: a token in use may be
  older than what the tables say. `respondido` (a call that gives the user its role had been answered
  when the session began) and `concorrentes` (the registrations that were
  in progress together) are history variables.
* **Senha.** A request names the token it draws: the row holds a hash, so only who has the
  e-mail presents it. `tokens`, `vencidos`, `usados` are the rows, those past `expira_em` and
  those with `usado_em`; `senha[u]` is the redefinition whose hash user `u` has. The mailer
  swallows every error, so `Enviar` answers 200 in any case. `trocas` and `antes` are history.
* **Manutencao.** EXTENDS `Outbox`: the rows a call inserts are those the flushes select, and
  `QuedaGeral` takes handlers and flushes down together. Three statements (chamado, SELECT of the
  tenant, event) each reject or survive. `atualizarStatus` only returns its arguments.
* **Comunicacao.** `lacos[p][i]` is the loop of the entry `i` of `canais`: who is left, and its
  two counters. The order in which the SELECT returns the recipients is free. The loops run
  under one `Promise.all`; each return writes `resultado[codigo]`, the same key when a channel is
  listed twice (the DTO does not ask for distinct entries). `recusas` is history.
* **Consultas.** A list of rows is the set of the rows, a sum is the set of the rows summed and a
  date is its month, counted from a January, month 0. The number of months is `Number(meses)`,
  clamped to 36 but not rounded (`Limitar`): its floor and whether a fraction is left. With a
  fraction the SQL interval begins inside a month, and which of its rows are on or after that day is
  any subset (`EmParte`); `Date` truncates the month of each entry of the series towards zero, which
  differs from the floor before January (`MesDaSerie`). Likewise a boleto of the current month may be
  overdue or not (`TalvezEmAtraso`). The entry of a unit has a life in
  ticks of `Passar`. A report is three reads, each at its own moment; the SQL takes the month of
  the database (`mesBanco`), the series that of `new Date()` (`mesNode`), later. `leste` is a
  process east of UTC, where `chave()` sees local midnight in the month before. The tables change
  by the procedures of the schema: nothing in the repository projects the event store on them.

## 3. Runs

| Run | Instance | Shows |
|---|---|---|
| `OutboxDisputa` | 2 flushes, 3 events, 1 attempt, batch of 2, 1 failure | `EntregueUmaVez`, `DesfechoDefinitivo`, `ImplementaEntregaJusta` |
| `Manutencao` | 1 chamado, 3 flushes, 2 attempts, 1 failure of the worker and 1 of the producer | the outbox under overlap and end to end: `PublicadoImplicaEntregue`, `TentativasNaoExageram`, `AnuncioFiel`, `EventoAcabaTratado` |
| `BoletoAggregate` | amounts 0, 0.25 and 500.25, penalties of 1% and 5%, up to 5 events | `ReplayFiel`, `PagamentoEncerra`, `MultaLegal` |
| `Financeiro` | 2 units, 2 generations, 2 webhooks, 2 failures | seven properties, among them `RespostaDuravel`, `NadaSemAnuncio`, `ImplementaCiclo` |
| `Assembleia` | 1 pauta, 2 units, 3 vote requests, 1 query, 1 failure | five properties, among them `UmVotoPorUnidade`, `ImplementaUrna` |
| `Cadastro` | 2 registrations, 2 cnpjs, 2 e-mails, 2 creations, 2 sessions, 2 failures | `CnpjUnico`, `RecusaVerdadeira`, `TrancadoSoComFalhas`, `SemPapelExplicado`, `EmailRepetidoSoComCorrida`, `RegistroInteiro` |
| `Senha` | 2 users, 2 tokens, 3 redefinitions, 2 failures | `UsoRepetidoExplicado`, `RecusaJustificada`, `SenhaEmVigor` |
| `Comunicacao` | 1 publication, lists of up to 3 channels, 3 users, 3 units in 2 blocks, 2 failures | `ResultadoConfiavel`, `NinguemPreterido`, `PublicacaoTermina` |
| `Consultas` | 1 unit, 2 generations, 3 payments (2 of one reference), 2 readers or 1 report, 2 ticks of life, 2 turns of the month | `DefasagemLimitada`, `AcabaAtual`, `NuncaDuasVezes`, `SerieFiel` |

Bounds. Only failures and crashes are counted (`MaxFalhas`, `MaxInterrupcoes`), plus the events
of a boleto (`MaxEventos`), the length of `canais` (`MaxCanais`), the months that begin (`MaxMes`) and the saturation of `entregas` at "more than one" and of `fracassos` at the
limit, past which no property distinguishes values. Two flushes give every pair of stale copy and newer
row, and a third lets them undo each other for ever (see below); in `OutboxDisputa` `Lote` is smaller
than the number of events, so batches end with rows left, two flushes may select different ones and a
row waits until earlier ones are resolved; its limit of one attempt makes the first counted failure
the exhaustion, and `Manutencao` has two attempts, hence retries. Two webhooks are the least that
race, two generations the least that retry. Three vote requests of two units give a race, a
retry and a bystander. In `Cadastro` two failures are what it takes to lock a user out (one
interrupts the registration, one the creation), and two creations what it takes for one to see
the other's condomínio. The races of the findings need no more than these; the theorems below
remove the bounds for the properties they name. In `Senha` two redefinitions race for a token
while a third comes before or after; two tokens keep a mark on the wrong row visible. Lists of
three channels include every repetition that matters (a channel twice, and twice with another).
The list and the report of `Consultas` share only the tables, so a behaviour of `MCConsultas` has
callers of one kind; a life of two ticks is the least at which an entry ages without dying, and
the window of the report is cut by `LimiteMeses = 3` with requests of 0, 2, 7, two and a fraction,
and no number. Only behaviours with a report start in a later month or east of UTC: the list looks at
neither.

Fairness (`Outbox!Fairness`). The timer fires again and again, so some flush starts when there is
something to select: `WF_vars(\E f : IniciarFlush(f))`. A started operation ends, well or badly:
`WF_vars(Passo(f))` for each flush. That is what the event loop and the drivers give as long as
the broker and the database answer in the end; a broker that is away for ever is outside the
liveness properties. The same fairness serves `Manutencao`, where only the worker is bound to go
on. Nothing forces the publish to succeed, and `MaxFalhas` bounds crashes and
database failures, not rejections. In `Comunicacao` a send or an insert that was started is answered in the end,
well or badly (`WF_vars(Passo(p))`), which nodemailer's and the driver's timeouts give; crashes stay
possible and end the publication. In `Consultas` time passes (`WF_vars(Passar)`) and what a reader
awaits answers or fails; nobody is forced to read, and the tables are finite, so they stop
changing. The other specifications are checked for safety only: their handlers are requests that
nobody repeats by obligation.

Overlapping flushes that load the same event break more: with three of them its row can oscillate
for ever (a stale save takes `publicado` back to FALSE, another puts it back), so "every row settles"
fails, and with two a published row may become pending again. So `DesfechoDefinitivo` is stated of
the events that two flushes do not hold at that moment, `EntregueUmaVez` of those they never did,
and `OutboxEntrega` lets the disputed ones, and only them, take an outcome back (`Desfazer`). Both
hold while flushes overlap on other events, and again after a dispute has ended. For a disputed event
`EventoAcabaTratado` is what remains true: it has been delivered, or its attempts stay used up.

### Disagreements with the repository's own statements

Each is a run expected to find a violation; TLC prints the behaviour.

| Run | Statement | What the code does |
|---|---|---|
| `FinanceiroWebhooks` | confirming is idempotent, against redelivery (`confirmar-pagamento.handler.ts:6-9`) | two overlapping deliveries append two `PagamentoConfirmado` of the same version |
| `AssembleiaPrazo` | a closed pauta takes no votes (`registrar-voto.handler.ts:31`) | `encerramento` is checked two awaits before the insert |
| `SenhaUsoUnico` | a token is for one use, marked as soon as validated, and a second click is refused (`redefinir-senha.handler.ts:11-13`) | the mark comes last, after the hash and the update of the password, and nothing rechecks it: two overlapping calls both change the password |

More facts that contradict a statement of the repository and need no run of their own:

* Five rejections and an event is never sent again, against `db/schema.sql:424` ("garante
  publicação confiável"): the exhausted branch of `EventoAcabaTratado`.
* Boletos and their outbox row, chamado and event, are separate transactions, against
  `README.md:57` and `boleto-event-store.repository.ts:8-10` ("sem risco de dual-write",
  "gravado na mesma transação"): `FalharOutbox`, `FalharAbertura` and `Queda` leave the first without the second.
* The e-mail is looked for two awaits before the insert and is unique only within a tenant: two
  overlapping registrations give two accounts, against `registrar-cliente.handler.ts:30` and
  `:67`. `EmailRepetidoSoComCorrida` says that nothing but the overlap can.
* The failure of the second save of a creation leaves an assembleia without pautas, against the
  message of `criar-assembleia.handler.ts:20` (`FalharPautas`).
* An overlapping flush sends an event that another has marked as published, against the comment
  of `outbox-worker.service.ts:9`.
* A registration interrupted after its first save leaves a tenant without user, whose cnpj
  refuses every retry (`FalharRegistro`).
* A publication always ends in an error, after the e-mails went out and the comunicado was saved:
  its event carries a text in a `uuid` column (`RecusarOutbox`), so a client that retries notifies
  everyone again. With `EMAIL` listed twice each user gets two e-mails and the report is that of
  the loop that ended last.
* A report of a fractional number of months does not show the receita by competência that
  `obter-relatorio-financeiro.handler.ts:21-22` announces. `?meses=2.5` is clamped but not rounded:
  asked in March, the SQL window begins on 17 January, while the series is January and February. A
  payment of a boleto of 1 January shows as 0, and March is missing, with both clocks in step. `SerieFiel`
  therefore promises the payments only of months within the whole months of the window; without that
  condition for reports with a fraction and clocks in step TLC finds this behaviour.

The weaker facts that do hold are the properties of the passing runs: payments collide only when
calls overlapped and leave status and version unambiguous (`DuplicataSoSobreposta`,
`ReplayEmQualquerOrdem`); a closed pauta is frozen once the requests that found it open have
ended (`ApuracaoCongela`); a cnpj is unique, although an e-mail is not; a session that
ends without the role began before the registration was answered, and the next one has it unless a
failure came in between (`SemPapelExplicado`); boletos nobody announces are those of a generation
that was not answered with success (`NadaSemAnuncio`); a token is used twice only by calls
that overlapped or after one that was cut short, and a link is refused only for a reason; the
cached list is stale for less than its 30 s, unless a slow reader wrote it; and a report never
counts a boleto both as received and as overdue, because it reads the payments first and a payment
is one transaction with its status. The role list of a login that
overlaps the registration itself may be empty: the roles are read before the transaction, the
condomínios after it. A user is locked out for good only if the registration and then a creation
made through the onboarding fallback were both interrupted (`TrancadoSoComFalhas`).

Type invariants (`TypeOK` of each module) are conjuncts of the inductive invariants of section 4;
a run checks that of `BoletoAggregate`, where a load that took stored events for new ones would
outgrow it.

Every property of a passing run has a mutant of the code (in the modules, just before the
definition it changes) that breaks it.

## 4. Theorems

Proved by TLAPS for all constants that satisfy the named `ASSUME` of each module (which TLC
evaluates in the runs). Every safety property of the passing runs is stated by one of them.

* `OutboxProofs`, about `Outbox`: type correctness, `PublicadoImplicaEntregue`,
  `TentativasNaoExageram`, for any number of overlapping flushes. The properties speak of rows; a row
  is written from a copy, so the invariant says the same of copies (`AfirmacoesVerdadeiras`), and
  `SobraTentativa` says that only the catch block, and only for the event at hand, has used up the
  attempts of a copy: without it `tentativas` could not be bounded. For the same number
  of flushes, and without a hypothesis on how they overlap, `DesfechoDefinitivo` and `EntregueUmaVez`:
  `DisputaCerta` says that an event in two batches is marked as disputed; `CopiasEmDia` that a copy of
  any other event, yet to be worked on, equals its row; `EntregaUnica` that without failures what was
  delivered and never disputed is published or about to be. From the same facts `RefinamentoEntrega`,
  step by step: the worker implements `OutboxEntrega` (`ImplementaEntrega`, the safety part of what the
  run checks). A delivery maps to a delivery of a *pending* event unless it is disputed, because the
  copy at hand is up to date and no flush holds an event that was not recorded (`SoGravados`); a save
  of `publicado` maps to `Marcar`, the save that uses up the attempts to `Desistir`, a stale save of a
  disputed event also to `Desfazer`, where published still means delivered, and every other step is
  invisible (`Invisivel`).
* `OutboxProofs`, about `Manutencao`: every step of the composition is an `Outbox` step or leaves its
  variables alone (lemma `PassosDoOutbox`, which holds by the shape of the composition), so the
  theorems above hold of it (`PublicacaoVerdadeiraComposta`, `PromessasCompostas`); what the
  composition adds is type correctness of both sides and `AnuncioFiel`: an event is recorded only by
  a call that saved its chamado (`AberturasCoerentes`), and delivered only if recorded (`SoGravados`).
* `BoletoProofs`: type correctness, `ReplayFiel`, `PagamentoEncerra`, `MultaLegal`, for any amounts,
  percentages, days and lengths of history. `fromHistory` is a fold; `FromHistoryVazia` and
  `FromHistoryAppend` say what it computes. The library defines the fold by a recursive function over
  sets of indices that it chooses from; `ReplaysExiste` shows by induction that such a function
  exists and `ReplaysIguais` that it does not matter which. None of the properties is inductive:
  `save()` may store any prefix of the uncommitted events, and what the next `loadById()` replays is
  that prefix. So the invariant is about every prefix (`ReplaysLegais`): its replay counts its events,
  carries a legal penalty, and is PAGO if it ends in a payment, from which the guard of every
  command keeps the payment last. `MultaLimitada` is the arithmetic of `Math.min` and of the rounding.
* `FinanceiroProofs`: type correctness, `RespostaDuravel`, `DuplicataSoSobreposta`,
  `NenhumaUnidadeEsquecida`, `TotalConfere`, `NadaSemAnuncio` and the refinement `ImplementaCiclo`. The invariant
  describes the calls in flight: one about to save has read exactly the `BoletoGerado` of its boleto,
  hence every payment has version 2 and an author that had not read a payment
  (`HistoricoBemFormado`, `ChamadasCoerentes`); `UnidadesVisitadas` accounts for each unit of the
  loop; `ContagemLimitada` bounds the total for the type, and `ContagemFiel` ties the counter of a
  generation to the rows it wrote and the inserts that failed; `Anunciado` says that a call ends with
  success only after its event, with that total, unless it stored nothing. `ReplayEmQualquerOrdem`, for any
  number of colliding payments: a boleto with rows has its `BoletoGerado` (`Historicos`), at version
  1 and therefore first in every order the database may choose (`LinhasOrdenadas`), and the replay of
  any number of payments after it is PAGO with one version per row (`ReplayDosPagamentos`, from the
  lemmas of `BoletoProofs`, taken by INSTANCE).
* `AssembleiaProofs`: type correctness, `UmVotoPorUnidade`, `RespostaVerdadeira`,
  `QuorumCoerente`, `ApuracaoCongela` and the refinement `ImplementaUrna`. The UNIQUE test
  makes the new row fill a blank ballot; that a refused request has no row of its own needs
  `VotosDosPedidos` (every row was written by a request that has ended), which also gives one
  row per request and so bounds every count. `ContagemParcial` keeps the first count of a
  query below the votes of now, until the second query adds up the three options.
* `CadastroProofs`: type correctness, `CnpjUnico`, `RecusaVerdadeira`, `TrancadoSoComFalhas`,
  `SemPapelExplicado`, `EmailRepetidoSoComCorrida` and `RegistroInteiro`. `RegistrosCoerentes` says
  what each step has stored already; `SessoesCoerentes` that a session begun after a call that gave
  the role was answered never gets to count condomínios, and one without the role has counted some;
  `CondominiosExplicados` that each condomínio belongs to a tenant with a role or to a creation that
  has given none, from which follow who may be locked out and that a missing role comes.
* `SenhaProofs`: type correctness, `UsoRepetidoExplicado`, `RecusaJustificada`, `SenhaEmVigor`.
  The invariant says what each point of a request or a redefinition has done: who answered 200
  changed the password and marked the token, a mark has a change behind it, a sent e-mail a row.
* `ComunicacaoProofs`: type correctness, `ResultadoConfiavel`, `NinguemPreterido`. Each loop
  accounts for every recipient (its two counters and those left add up), and the users it has
  written to or failed for bound the counters; the e-mails of a user are those of the loops that
  have passed it. Cardinalities of sets that lose one member carry the proof.
* `ConsultasProofs`: type correctness (the number of months is NaN or between 1 and the limit, with
  or without a fraction: `Limitado`), `DefasagemLimitada` (the life left of an entry and the time
  since the rows changed add up to at most the TTL), `NuncaDuasVezes` (a payment seen by the first
  query has its boleto paid, for ever) and `SerieFiel`: the payments there were when the report was
  asked for and that lie in the whole months of its window are among those summed, and stay so because
  the window only moves on (`Somados`); the two clocks are at most a month apart (`RelogiosProximos`),
  so an entry of the series has them unless it is older than those months, or is the oldest of them
  and the database is ahead. With a whole number the entries are exactly those months (`MesInteiro`);
  with a fraction they are not, and of an older entry only that it shows no payment too many.

Only model-checked: liveness (`EventoAcabaTratado`, `AcabaAtual`, `PublicacaoTermina`) and, of
`ImplementaEntregaJusta`, the fairness of `OutboxEntrega`: both need ENABLED, which is out of the
prover's reach. Induction is written over sets (lemma `Inducao`, a set that contains 0 and successors
is `Nat`) because the library's induction theorems take an operator as a parameter.

## 5. Not modelled, and why

* Reservas, portaria, documentos: no code beyond module declarations.
* Audit triggers and row level security: no TypeScript reaches them or sets their context. The two
  procedures of financeiro, which nobody calls either, stand in `Consultas` for whoever writes the
  tables that the queries read.
* Amounts of a generation (rateio by `fracaoIdeal`) and due dates (`addDays`): data that no handler
  reads back.
* The listings of condomínios, assembleias and comunicados: reads of one or two tables.
* The CNAB, OFX, export, PDF and e-mail routes of financeiro: they return constants.
* Guards other than the role they ask for, filters, Swagger, configuration, OAuth and JWT
  adapters, seeds: framework wiring without state.
* Schema drift: `financeiro.boleto_event_store` and `condo.unidades.tenant_id`, which the
  entities name, are not in the shipped DDL. The models take the entities as they are written.
  A unit without tenant makes the generation fall back on the text `'desconhecido'`, which a
  `uuid` column refuses: `ComTenant` of `Financeiro`.

## 6. Plan

1. Outbox, its abstract promise, safety proofs – done.
2. Boleto, Financeiro, the cycle of a boleto, safety and refinement proofs – done.
3. Assembleia and the ballot box, with proofs – done.
4. Registration, login, refresh and the creation of condomínios (`Cadastro`), and the password
   reset (`Senha`), with proofs – done.
5. `Comunicacao` (publish, channels, report), with proofs – done.
6. The queries of financeiro (`Consultas`), with proofs – done.
7. Composition of a use case with the outbox worker, end to end (`Manutencao`), with the theorems
   of `Outbox` carried over – done.
8. The abstract delivery promise, the aggregate, its replay in `Financeiro` and the series of the
   report as theorems – done: no safety property is left to TLC alone.
9. Left: an abstract specification of the reset token and its refinement by `Senha` (a token in use
   as an interval, ended by its mark); the same for the roles of `Cadastro`; the rateio as a pure
   operator, with the lemma that rounding loses less than a cent per unit.
