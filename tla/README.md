# Dumb Browser in TLA+

Dumb Browser is a custom Chromium build: some 1000 patches to Chromium and, under `dumb/`,
about 5000 lines of C++ of its own, plus the Python scripts that keep the patches. The code
of its own that has real behaviour sits between a renderer and the network service: proxies
for `URLLoader`s and WebSockets, a request handler that lets registered hooks inspect,
redirect, block or answer requests, and, inside the network service, a delegate that strips
tracking parameters from URLs. This directory specifies that code and checks it with TLC
and TLAPS.

## 1. Inventory

### Request handler (`dumb/browser/net/dumb_request_handler.*`, `url_context.*`)
- *State*: `callbacks_`, a map from request identifier to the stored continuation of a
  proxy; the lists of registered hooks; per request, a `DumbRequestInfo` context that proxy,
  handler and hooks share, with a raw pointer `new_url` into the proxy.
- *Operations*: `OnBeforeURLRequest`, `OnHeadersReceived`, `OnBeforeStartTransaction`,
  `RunNextCallback` (also run later by a hook that returned `ERR_IO_PENDING`),
  `RunCallbackForRequestIdentifier` (posts the continuation), `OnURLRequestDestroyed`.
- *Interaction*: called by every proxy of a profile; calls back through the task queue of
  the UI thread.
- *Hard*: hooks that answer after their request has gone; posted tasks that race with the
  destruction of the proxy; entries of `callbacks_` whose callback was moved out.
- *Correct when*: every pending call is answered once, no hook is skipped or run twice, an
  error or a pending hook is never taken for consent, and nothing is written to a proxy that
  is gone.

### Proxying URL loader factory (`dumb/browser/net/dumb_proxying_url_loader_factory.*`)
- *State*: per factory its client pipes, its network factory and its set of requests; per
  `InProgressRequest` the bound pipes, whether the network's messages are paused, the
  pending `FollowRedirect`, `request_completed_`, and, in the continuations it has handed
  out, its phase.
- *Operations*: `CreateLoaderAndStart`, `Clone`, `FollowRedirect`, the network's
  `OnReceiveResponse/Redirect/OnStartLoadingResponseBody/OnComplete`, the three
  continuations, disconnect handlers, the mock response writer.
- *Interaction*: mojo messages from client and network, calls to the request handler.
- *Hard*: every message can arrive between any two steps of the others; the object deletes
  itself on half a dozen paths; redirects made by a hook must drop the network's loader.
- *Correct when*: the client sees a legal `URLLoader` conversation that mirrors the
  network's, only URLs all hooks agreed to reach the network, every request ends, and the
  factory lives exactly as long as it is needed.

### Resource context data (`dumb/browser/net/resource_context_data.*`)
- *State*: per profile, the request handler, the identifier generator, the factories and
  WebSocket proxies. *Operations*: `StartProxying`, `StartProxyingWebSocket`, `RemoveProxy`,
  `RemoveProxyWebSocket`, destruction. *Hard*: the proxies' destructors call the handler.

### Proxying WebSocket (`dumb/browser/net/dumb_proxying_web_socket.*`)
- *State*: the handshake, authentication and header pipes, two stored reply callbacks.
- *Operations*: `Start`, the `TrustedHeaderClient` calls, `OnConnectionEstablished`,
  continuations of the handler and of a chained header client.
- *Hard*: two chains of asynchronous callbacks (handler, header client) and a pause shared
  by two pipes. *Correct when*: the handshake waits for the hooks' consent, every stored
  reply callback is answered, and the socket ends.

### URL purifying and the network delegate (`dumb/services/network/`)
- *State*: the rule lists, which only ever are the default rules; per request, the URL, the
  redirect the loader asked for, the referrer, and the `PendingCallbackChain` of the last
  header block.
- *Operations*: `TruncateURLParameters`, `OnBeforeURLRequest`, `OnHeadersReceived`,
  `HandleClearSiteDataHeader`, `FinishedClearSiteData`.
- *Interaction*: `URLRequest` calls the delegate; header clients and the browser process
  (Clear-Site-Data) answer later.
- *Hard*: three regular expressions applied in order to one query, an internal redirect that
  runs the delegate again on its own result; two parties who answer for one response in any
  order, a veto among them, and a request that is destroyed before they do.
- *Correct when*: no tracking parameter is left at the end, nothing else is removed, and the
  redirects stop; other sites see at most the origin; a response goes on once, after the
  data is cleared, and never against a veto.

### Tab alert indicator button (`dumb/browser/ui/views/tabs/alert_indicator_button.*`)
- *State*: the alert state, the alert state that is shown, the fade animation, whether the
  button is enabled, its dormant period.
- *Operations*: transitions of the tab's alert, clicks and taps, mouse moves, animation end
  and cancellation, the dormant timer, layout and selection of the tab.
- *Interaction*: `Tab` tells it the alert state and lays it out; it mutes the page through
  the tab strip and tells the `Tab` when what it shows changes, which lays it out again.
- *Hard*: handlers call each other in the middle of their work; the state changes on a click
  before the page has been muted; an animation is replaced by another one while it ends.
- *Correct when*: a click that counts does what the icon says, an active tab with sound can
  be muted, what the page does reaches the button, and an icon that fades out goes.

### Patch set scripts (`scripts/update_patches.py`, `apply_patches.py`, `utils.py`, `sync.py`)
- *State*: the patches directory, the list `config/PATCHES`, the copies of excluded files, the
  checked-out tree and the sources in it.
- *Operations*: each script's steps, in the order they write files; gclient's reset.
- *Hard*: a script is stopped anywhere and another one is run; patches that do not apply or
  are applied already; paths encoded in file names.
- *Correct when*: an update that ends has recorded the tree, a set that is torn is not
  applied, and what was recorded comes back.

### Without behaviour of their own
Build scripts, the 965 patches of vendored Chromium, flags, preferences and settings
tables, the empty privacy guard service, contextual identity, version strings and branding.

## 2. Modules

| module | models | state and actions |
|---|---|---|
| `DumbRequestHandler` | the request handler, its hooks, and its callers as an environment | `callbacks`, `ctx`, `redirectUrl` are the members of the same names; `hookWait` are hooks holding `next_callback`; `tasks` the UI thread's queue; one action per entry point |
| `ProxyingURLLoaderFactory` | factories, `InProgressRequest`s and `ResourceContextData`, with the handler as `H == INSTANCE DumbRequestHandler` | `req[id]` has a field per member that matters plus the network's loader (`net`) and what the client was told (`sent`); one action per mojo message, continuation and disconnect handler |
| `URLLoaderContract` | what the client of a proxied loader is promised | `view[id]`, what the client was told last |
| `ProxyingWebSocket` | `DumbProxyingWebSocket` and the set of sockets of a profile, with the handler as `H == INSTANCE DumbRequestHandler` | `ws[id]` has the pipes and their pauses, the reply callbacks the network waits for, what the header client was asked and what the network and the client were told; one action per mojo call, continuation and disconnect handler |
| `URLPurify` | the query matchers and rules of `url_purify_delegate.cc` | operators, no state |
| `DefaultRules` | the rules of `url_purify_default_rules.cc`, in their order, with the sites and parameters that tell them apart | operators, no state |
| `NetworkDelegate` | one `URLRequest` with `OnBeforeURLRequest`, every redirect, and its referrer | `url` is `request->url()`, `wanted` the loader's `new_redirect_url`, `newUrl` is `*new_url`; the redirects of client and server are external |
| `ClearSiteData` | `OnHeadersReceived` with `PendingCallbackChain`, the header client, and the browser's clearing | `chain[r]` is the chain, `client` and `clearing` say who has a callback of it |
| `AlertIndicatorButton` | `AlertIndicatorButton` with the `Tab` around it | `b` has the button's members, `tab` its geometry and selection, `data` the tab's `data_.alert_state`; one action per handler, with all the calls it makes |
| `PatchSet` | `update_patches.py`, `apply_patches.py`, `sync.py` and `utils.py` | `tree`, `patches`, `list`, `overwrite`, `dumb` are the files; `script`, `pc`, `todo` say which script is where, and `Interrupted` stops it, with the file it writes torn (`TornPatch`, `TornCopy`, `TornList`, `TornTree`) or not |
| `DumbRequestHandlerProofs`, `ProxyingURLLoaderFactoryProofs`, `ProxyingWebSocketProofs`, `URLPurifyProofs`, `NetworkDelegateProofs`, `ClearSiteDataProofs`, `AlertIndicatorButtonProofs`, `PatchSetProofs` | theorems and lemmas about the modules they are named for | `NetworkDelegateProofs` extends `URLPurifyProofs`; those of the two proxies instantiate `DumbRequestHandlerProofs` |
| `MC...` | the instances TLC checks | |

The proxies and the button run on the UI thread and the delegate on the network thread, so
one handler is one atomic step; the steps of clients, network, hooks, posted tasks, users,
timers and shutdown interleave freely. Shutdown is one such step: the order in which the
members of `ResourceContextData` are destroyed (`resource_context_data.h:84`, the handler last) is
read from the source and not checked. In `PatchSet` a step is one write, which may be cut off in
the middle.

The identifier of a request is generated once per object and never reused, so the models
use it as the name of the object. Abstractions: header and body contents, URLs (only their
scheme class matters: `http`, `internal` — never shown to hooks —, `other`), and calls that
are forwarded without touching any state. Hooks are arbitrary: each may answer at once or
later, agree, fail, redirect, block or mock.

`DumbRequestHandler` has its two kinds of callers as an environment: requests of the loader
factory (`NewRequest`, `RestartRequest`, `HeadersReceived`, `SkipHeadersReceived`) and
WebSockets, which also ask `BeforeStartTransaction` and block a request at once when its URL
is emptied (`NewRequestBlocked`, `HeadersReceivedBlocked`). Both components are shown to
refine it, so that what is proved of the handler holds under either.

In `URLPurify` a query is a sequence of parameters, and a pattern the set of parameters it
matches; a parameter without a value is one no pattern matches. A URL's site stands for the
url patterns and exceptions it matches. In `PatchSet` a change is a set of hunks, and `patch
--forward` applies those that fit.

Some branches of the code are left out because no execution reaches them: the handler never
returns `ERR_BLOCKED_BY_CLIENT` and never redirects or fails from `OnHeadersReceived`, whose
clause for `chrome://` URLs (`dumb_request_handler.cc:89-90`) meets none, as such a URL is not
loaded from a network; and `update_patches.py:80` always finds the list, which is in the
repository.

A redirect of the network, like one of a hook, may lead to a URL of any scheme class.
`ctx[id].refused` is a history variable: a hook of the current round has returned an error. It
lets `OKOnlyAfterEveryHook`, `NetworkSeesOnlyVettedRequests` and `ConnectsOnceWithConsent` ask for
consent and not only for the index that says how many hooks have run; a last hook's error taken
for net::OK would violate them.

**The shipped configuration.** `SetupCallbacks` registers no hook (its body is commented
out) and the call to `MaybeProxyRequest` in
`patches/chrome@browser@chrome_content_browser_client.cc.patch:384` is commented out too.
The models therefore have the number of hooks as a constant; `Shipped.cfg` is the
configuration with none.

## 3. What TLC checks

| run | question | bounds |
|---|---|---|
| `handler` | is the handler right under callers that only keep to one call at a time? | 2 requests, 2 hooks: two entries in the map, a first and a last hook |
| `hooked_request` | is one request right through everything that can happen to it, and does it end? | 1 request, 2 hooks, 2 redirects (a redirect after a redirect), 2 factories, a clone, all schemes |
| `two_requests` | do the factories refine the handler's specification and the client contract? | 2 requests on 1 factory, 1 hook, 1 redirect |
| `shipped_build` | without hooks, does a started request always have a loader to hear from? | 2 requests, 2 factories, 2 redirects |
| `undriven_request` | finding: a request is started with nothing to drive it | 1 request |
| `sockets` | does the handshake wait for every consent, is every stored reply owed to somebody, is every started socket handed over or dropped? does the socket refine the handler's specification? | 2 sockets, each with or without a header client, 2 hooks, 2 rounds of headers (authentication) |
| `empty_data_socket` | finding: a socket blocked by a slow hook is connected | 1 socket |
| `purify` | what a server is sent after purifying and its redirects | the default rules cut to 4 sites and 5 parameters, URLs of up to 4 parameters, redirects to URLs of up to 2, a limit of 4 redirects |
| `per_site_rules` | finding: a site's rule is not applied to it | as `purify` |
| `clear_site_data` | does each response go on once, after both its parties, and not against a veto? | 3 requests: of a loader with an observer, of a WebSocket with only a header client, of neither; 2 header blocks each |
| `alert_button` | do clicks mean what the icon says, and do icons come and go with the page? | tabs of 3 widths: with no room for the icon when active, with just enough, and with a close button also when inactive |
| `patches` | is what was recorded what comes back, wherever a script is stopped? | 4 files: two plain ones, one with an `@` in its name, an excluded one; one hunk |

What the properties say is written above each of them. The bounds cover the interesting
cases: requests meet only in `callbacks_` and in the set of a factory, so two show every
pairwise interference; a hook is first, last or neither, and two hooks with any answer
sequence include "one agreed, one pending"; a stale `pending_follow_redirect_params_` needs
a second redirect. A query of four parameters has room for two neighbours at the front, in
the middle and at the end, which is what the three matchers divide between them; the sites
are one with a rule, one with two, one with an exception and one with none. A second header
block is what a redirect or a challenge makes of a chain that is replaced; requests share
nothing, and the three kinds differ in who is asked. One hunk per file tells a patch that is
there, empty, applied already or no longer fitting apart; a script treats files one by one,
so files matter only by kind and in that one is done and another is not.

Deadlock is not checked where a system may stop: when all requests are done and no
identifier is left, or a purified request is answered. The button and the scripts never
stop, and are checked.

**Fairness.** Weak fairness of hook answers, posted tasks, deliveries of a network loader
that is not lost, the write of a mock response, disconnect notices, and of a client's
decision after a redirect (follow or leave). Tasks and mojo messages are what the UI thread
and mojo guarantee; that hooks answer and that the network goes on or is lost are the
assumptions a proxy cannot do without. Nothing is assumed about new requests, redirects
by the network, lost factories or shutdown. `EveryRequestEnds` excepts three kinds of
requests the code does abandon (`Abandoned`): the network's loader was lost (no disconnect
handler is set on the two pipes), no network factory was left, or the write of a mock
response failed. For sockets the same tasks, hooks, pipes and network are fair, and the header client
as long as it is there; `EverySocketEnds` excepts a socket whose header client left owing an
answer, since no disconnect handler watches it. For `EveryResponseProceeds` header clients
answer, the browser clears what it is asked to and its reply arrives; a request whose
observer has been disconnected with the question unanswered is excepted, for the code asks
again nobody. For the button only the animation is fair, which is what
`gfx::AnimationContainer`'s timer does; users, pages and the dormant timer may do nothing.

**Findings.** `undriven_request`: when the last pipe or the network factory goes away while
a request waits for a hook, `ContinueToStartRequest` skips `CreateLoaderAndStart` silently;
the comment at line 440 says that from here the request is driven by its two pipes. Both are
unbound on the network's side, only the client's own end is not, and the client is told
nothing.

`empty_data_socket`: `Start` compares `redirect_url_` with `kEmptyDataURI` ("handle adblock
kEmptyDataURI", line 96) when `OnBeforeURLRequest` returns. A hook that answers later writes
`redirect_url_` after that, and without a header client nobody looks again.

`per_site_rules`: `TryApplyMatcher` returns -2, "try the next rule", when `url_matcher`
matches. A site's own rule is the one that is skipped, and the first rule for another site
is applied instead ("Apply per-site rules.", line 120). `HarmlessParamsKept` therefore speaks
of the parameters no rule at all knows.

## 4. Disagreements met while modelling

Besides the three findings, the models keep the following behaviour of the code, which a
comment, a message or a document describes otherwise or which surprises. No run is spent on
them.

- **A failed mute** (`alert_indicator_button.cc:393-396`). A click changes the image at once; the
  comment says that, should muting fail, another path updates the image again. The tab is
  only told of changes, and there is none. `NotifyClick` allows the failure.
- **First appearance** (`alert_indicator_button.cc:312-315`). A button that appears enabled
  under the cursor has no dormant period: `UpdateEnabledForMuteToggle` starts one only for a
  button that was visible.
- **An icon that grows into its tab** (`alert_indicator_button.cc:297-304`). The selectable region
  depends on the button's bounds, and is computed while it is hidden: the tab sets bounds
  before visibility (`tab.cc.patch:56-60`).
- **Patches that fail** (`utils.py:75-85`). "Patches applied." is printed whatever the return
  codes of `patch` were; a torn patch passes the consistency check, which compares names
  only, so that a set with a torn or outdated patch in it is applied as long as no name is
  missing. `AppliesWholeSets` is about names too, and `RecordedChangesReturn` has `PatchesFit` as
  a condition.
- **sync.py goes on just when gclient failed** (`sync.py:42`). `run_command` returns whether the
  command succeeded, and that is compared with 0: after a success it says "Failed to run
  gclient." and stops, after a failure it applies the patches to a tree that may be reset in part
  and of another version (`GClient`). `RecordedChangesReturn` covers that run (`"synchronized"`).
- **An `@` in a file's name** (`update_patches.py:79-89`). "/" is written as "@", so the new patch
  of such a file is taken for one of another file and is removed as an old one.
  `UpdateRecordsTree` names the exception.
- **An excluded file that was reverted** (`update_patches.py:56`) is not copied, and the old copy
  comes back. `RecordedChangesReturn` names the exception.
- **After sync.py has copied the sources** `apply_patches.py:42` raises: `os.readlink` is called
  on a directory. A link to other sources, which `apply_patches.py:43-50` means to replace, makes
  `os.symlink` raise, as it is still there (`Link`).
- **Builds** (not modelled). `build.py` writes `args.gn` once for a directory and ignores other
  options later (`build.py:77`, `:116`); the debug build of `README.md:78` has
  `is_debug = false` (`build.py:28`); a good build exits with `sys.exit(True)`, status 1
  (`build.py:130`).

## 5. What TLAPS proves

All theorems are proved from the assumptions on the constants that the modules state, which
TLC evaluates for every instance: none bounds the number of requests, hooks, factories,
sockets, redirects, header blocks, parameters, rules, files or hunks. Every invariant, action
property and refinement that a passing run checks is a theorem, with one restriction:
`DrivenAfterStart` is proved for `NumURLHooks = 0`, as with hooks it is false
(`undriven_request`).

`DumbRequestHandlerProofs`, from `HandlerAssumption` alone (any number of requests and
hooks, any set of continuations):

- `HandlerInvariant`: `Spec => []HandlerInv`. `HandlerInv` is inductive. It contains the
  safety properties and two strengthenings: `FutureIdsUntouched` (a fresh identifier has no
  task and no hook, so a new request starts with at most the continuation it makes) and
  `PendingHookHasCallback` (when a hook of an existing proxy answers, the entry it finds is
  the callback the proxy stored, not one that was moved out; without it
  `NoMovedCallbackPosted` is not preserved by `HookAnswers`).
- `CallbacksStayOwned`, `NeverTwoContinuations`, `EveryHookConsulted` follow from it.
- `HooksInOrder`: the action property `HooksRunOnceInOrder`, from the invariant.

The proof has one lemma per entry point of the handler (`RunNextCallbackKeepsInv` is the one
with the loop) and `NextKeepsInv` splits on the disjuncts of `Next`.

`ProxyingWebSocketProofs` and `ProxyingURLLoaderFactoryProofs`, from `SocketAssumption` and
`FactoryAssumption`. Here handler and proxies need each other: that the proxies call the
handler as its specification assumes follows from their own invariant, and their own
invariant is kept only because the handler posts one continuation and the right one. So the
inductive invariant is `IInv == H!HandlerInv /\ SocketInv` (or `RequestsInv`). `StepOfHandler`
shows, action by action, that under `IInv` a step is one of `H!Next` or leaves the handler's
variables alone; the handler's own lemma `NextKeepsInv`, instantiated as `HP!NextKeepsInv`, then
gives `H!HandlerInv'`, and with the handler's invariant on both sides of the step each action
is shown to keep the proxies' part.

- `SocketInvariant` (`SocketInv`). `OneHolder` and `RepliesAreOwed` are not inductive: a
  continuation posted for the wrong phase would start a connected socket again.
  `ContinuationMatchesPhase` says which continuation can meet which phase,
  `PipesTellPhase` that the bound pipes tell the phase and that only a socket with a header
  client asks one. `SocketsHaveOneHolder` and `NoReplyIsLost` follow.
- `ConnectionsAreVetted`: the action property `ConnectsOnceWithConsent`.
- `RequestsInv`, the inductive part of `FactoryInv`, whose strengthenings are `RequestsAreConsistent` (a
  request exists as long as its client has not seen its end, and pipes, loader and the
  client's view go together), `ContinuationMatchesPhase` (before-request continuations meet a
  loader that waits for `FollowRedirect` or none; the others meet the message that made the
  handler post them) and `TargetsAreAlive`. `MessagesWaitForContinuations`,
  `LoadersAreOnRequestURL`, `FollowedRedirectsAreExpected`, `ClientIsToldTheTruth` and
  `FactoriesLiveWhileNeeded` follow.
- `RequestsAreNotForgotten` (`NoRequestIsForgotten`): a request that lives and is not abandoned
  by the code (the excepted kinds of `EveryRequestEnds`) is owed a step, by a hook, the task
  queue, its client, the network or the mock writer. This is the safety half of
  `EveryRequestEnds`: fairness only has to make the debtor pay. It needs, next to `IInv`,
  `LoadersStartWhenTheyCan` (nobody waits without a loader where a network is bound), shown
  per request (`Driven`). With it `FactoryInvariant` (`FactoryInv`) is complete.
- `NetworkRequestsAreVetted`: the action property `NetworkSeesOnlyVettedRequests`. Each step
  is shown to be a `MayBecome`, which bounds at once what the client is told and how a loader
  starts to run.
- The refinements. `SocketsKeepHandlerConvention` and `FactoriesKeepHandlerConvention`
  (`HandlerSpec`, so every safety theorem about the handler holds under both kinds of callers)
  are `StepOfHandler` with `H!Init`. `FactoriesImplementContract` (`ContractSpec`) maps the
  moves of `MayBecome` to the actions of `URLLoaderContract`, and shutdown to its own.
- `RequestsAreDrivenWithoutHooks`: the shipped configuration. With no hook to wait for, each
  request has a loader and no `ContinueToBeforeSendHeaders` is ever posted (`Unhooked`, an
  invariant next to `IInv`).

The conjuncts of `SocketInv` and `RequestsInv` are regrouped per proxy (`SocketOK`, `RequestOK`
with `...InvByParts`), since most steps touch one proxy and leave the others as they were
(`OneSocketStep`, `OneRequestStep`).

`URLPurifyProofs`, from `PurifyAssumption` (any rules). Matchers, and the notion of what is
left of a query, are places in a sequence: `LeftAt(q, places)` takes what is at some places in
their order, the n-th place being the one with n - 1 below it. `LeftAtLeftAt` (taking twice is
taking once) and `TailIsLeft` make each matcher, and any sequence of them, a `Thins`: some
places are gone and all of them held tracked parameters. `TruncatedQueryResult`, for
queries of any length: `TruncateURLParameters` thins; at most the first parameter that is left
is tracked, and none if only the first was before; and it removes nothing just when there was
nothing tracked.

`NetworkDelegateProofs`, from `DelegateAssumption`:

- `PurifyingIsBounded` (`DelegateInv`): at most two redirects of the delegate in a row. The
  strengthening is `RoundsTell`: after one round only the first parameter may be tracked, after
  two none, which is the lemma above applied to the URL a redirect goes to.
- `ServersSeeNothingTracked`, `HarmlessParamsStay`, `ReferrersAreCapped`: no parameter of the
  global rules is sent, those no rule is about stay in order, and the referrer is cut for the
  URL that is sent.
- `PurifyingIsComplete`: what is sent is a URL that purifying would leave as it is, by the rule
  applied for its site too.

`AlertIndicatorButtonProofs`, from `ButtonAssumption` (tabs of any widths in which the icon
fits):

- `ButtonInvariant` (`ButtonInv`) and `ActiveTabsCanBeMuted`, proved together: a button is laid
  out, and thereby looks again at its rule, in the middle of other handlers. The invariant is
  cut by who puts it right: `Core` holds at any point within a handler, `EnabledOK` after
  `UpdateEnabledForMuteToggle`, `VisibleOK` after `Layout`, and `TransitionResult` is the lemma
  for the handler that calls both. The strengthenings are `EnabledForAudio` (enabled means
  audio, but for a new button that was never shown) and `FadeStopsAtItsEnd`.
- `ClicksMeetAudio` follows; `ChangesReachButton` is the action property `DataReachesButton`.

`ClearSiteDataProofs`, from `ClearSiteDataAssumption` (any requests, observers and header
clients, any bound on header blocks):

- `ChainInvariant`: `Spec => []ChainInv`. `ClearedBeforeProceeding` and `VetoStands` are not
  inductive: a callback could complete the chain early, or with the wrong result.
  `ChainWaitsForHolders` says that the chain's count is that of the callbacks that are held,
  `VetoRecorded` that the result remembers a veto, and `AnswersCounted` that only a held
  request has answers to come.
- `DataIsClearedFirst` and `NoVetoIsOverridden` follow from it; `AnswersMatchBlocks` is the
  action property `OneAnswerPerBlock`. Both callbacks go through `CallbackComplete`, whose
  effect is the lemma `CallbackCompleteTells`.

`PatchSetProofs`, from `PatchSetAssumption` (any files, names, hunks and exclusions; that
replacing "@" a second time changes nothing more, and that no two files share a patch, which
rules out two files whose names differ in "@" and "/" only):

- `PatchSetInvariant`: `Spec => []PatchSetInv`, with `UpdatesRecordTheTree` and
  `RecordedTreeReturns` from it. The strengthenings say where a script is:
  `UpdateProgress` (loop invariants of the update), `StoredAsRecorded` (until the next
  update the store is that of the recorded tree), `ApplyProgress` (a tree that was reset and
  patched is at each file Chromium's or the recorded one).
- The lemmas: `ConsistentSets` (neither an empty list, which reads as one empty name, nor
  one cut off in a line passes the check), `NamedPatches`, and `PatchingRestores` (a patch applied to a file that has it
  or not makes it the recorded one).

Only model-checked: the liveness properties `EveryPendingCallIsAnswered`,
`EveryRequestEnds`, `EverySocketEnds`, `EveryResponseProceeds` and `IconGoes`, which need
fairness and `ENABLED`, beyond the prover; and the three findings, which are counterexamples.
Induction over data is out of its reach too. `URLPurify` therefore has no recursive
definition: the argument about queries of any length is one about places and their ranks.

## 6. Not modelled

- *Build scripts*: one launch of gn and autoninja after another, with no state but `args.gn`
  (section 4).
- *Patches to Chromium*: edits of vendored code that remove or switch off features. Where
  they call this code they are external parts of its models.
- *Strict-Transport-Security stripping*: a stateless edit of a request's headers.
- *Flags, preferences, settings, branding, contextual identity, privacy guard service*:
  tables, strings and types without behaviour.
- In modelled components: painting of the button, the callbacks of the delegate that only
  forward or read a setting, header and body contents, byte counts and priorities.

## 7. Plan

Done: all the components of section 1 that have behaviour, with the proofs of section 5: the
inductive invariants, action properties and refinements of every module with state.

To come: theorems that combine what is there, among them what `ContractSpec` promises a client
as an invariant of the contract itself, and what the handler's convention gives both of its
clients.

The abstract specifications are `URLLoaderContract` and, for the handler's clients,
`DumbRequestHandler` itself.
