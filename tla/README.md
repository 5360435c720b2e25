# TLA+ models of paysuper-billing-server

These TLA+ modules model the billing server's pricing engine and its stateful handlers. The TLC configurations check them. Every definition is translated from the Go source under `src/`, and `PROJECT.json` maps each definition to the lines it models.

## The system

`internal/service` is one gRPC service. It has these parts:

| Part | Source | State it touches |
|---|---|---|
| Price table interpolation and fraction rounding | `price_groups.go` 216-280, 551-582 | none (pure arithmetic on float64) |
| Recommendation handlers (`GetRecommendedPriceByPriceGroup`, `...ByConversion`) | `price_groups.go` 177-310, 332-347 | reads price groups, price tables, currency service |
| Price-group repository and cache (`PriceGroup.*`, `UpdatePriceGroup`) | `price_groups.go` 55-101, 365-510 | `price_group` collection, cacher keys `price_group:id:*`, `:region:*`, `:all` |
| User roles: invite, resend, accept, change role, delete | `users.go` 161-899 | user-role collection, casbin server, mail broker, user profile |
| User profile and e-mail confirmation | `user_profile.go` | profile collection, confirmation tokens in the cacher, centrifugo |
| Merchant onboarding | `onboarding.go` | merchant collection, notifications, payment-method history, document signer |
| Projects | `project.go` | project collection and cache |
| Order getters, BSON marshalling, config URLs | `pkg/proto/...`, `config/config.go` | none |

The parts interact as follows:
- The recommendation handlers read the price groups through the repository (`priceGroup.GetAll`) and the tables through `priceTable.GetByRegion`.
- `AcceptInvite` and `Delete*User` write the user profile (`emailConfirmedSuccessfully`, `emailConfirmedTruncate`).
- Every user-role handler writes the database and casbin as separate calls, with no transaction.

The specification (`spec.md`) covers only the pricing engine: the bracket selector, the cost-rule resolver, the fraction rounder, the interpolator and the orchestrator. The cost-rule resolver is not in `src/`; only its tests are. `CostRuleResolver` is therefore the one module translated from the specification rather than from code (its map entries are marked `spec_modelled`).

## Modules

### `PriceMath`: pure pricing arithmetic
- Money is in integer cents. An interpolated price is an exact rational `[num, den]` of cents. The code's float64 arithmetic is exact on these inputs, except where `CalculatePriceWithFraction` formats with `%.2f`.
- A value lying exactly on a half cent is stored as a double that can fall on either side. `FracCents` therefore returns both roundings, and `CalculatePriceWithFraction` returns a set of outcomes.
- Operators:
  - `GetPriceTableRange` is `getPriceTableRange`.
  - `RegionRange` and `Interpolate` are the two halves of `getRecommendedPriceForRegion`. `Interpolate` keeps the ratio flip (0→1, 1→0).
  - `PriceWithFraction` is `CalculatePriceWithFraction` for each fraction code, in cents: 5, 50, 95, 9, 0, and anything else truncates.
- An index out of range is the value `Panic`.

### `RecommendedPrice`: one recommendation request
- The request is a state machine with these steps:
  - `GetAll` (may fail);
  - for the table strategy, the source table (`LoadSourceTable`, which may be missing or panic);
  - then the loop over the price groups, in any order, because the database order is unspecified.
- Each group is one step: `RegionRecommended`, `RegionTableMissing`, `ConversionOk` or `ConversionFails`.
- The module also holds a reference written from the specification's prose: `SpecLocate`, `SpecMapPosition` and `SpecInterpolate`. `SpecLocate` finds a range by what it contains, not by the code's ceil arithmetic.

### `PriceGroupStore` (abstract) and `PriceGroupCache` (implementation)
- `PriceGroupStore` is what the repository promises: one store of groups addressed by id. Each call takes effect at one instant, with the steps Call, Apply and Return.
- `PriceGroupCache` covers:
  - `UpdatePriceGroup`, and `PriceGroup.Insert` (`DbInsert`), `Update` (`DbUpdate`), `GetById`, `GetByRegion`, `GetAll` (`FindAllActive` is its query) and `updateCache`;
  - concurrent clients;
  - one atomic step per database or cacher call.
- Any cacher `Set` or `Delete` may fail.
- `cacher.Get(key, c)` receives `c` by value, so a Get that succeeds leaves the caller with the zero value. The cacher implementation is outside `src/`, so `CacherGetSucceeds` selects between its two possible behaviours.
- `StoreRefinement` maps `store` to the collection, and each client's operation and result to the abstract `op` and `done`. The abstract update replaces a group only while it is active. No run checks the refinement, because the code implements it under neither cacher:
  - under a `Get` that succeeds, reads answer the zero group (`MCPriceGroupCacheHit.cfg`);
  - under a `Get` that fails, `UpdatePriceGroup`'s `GetById` and `ReplaceOne` are separate calls, so an update that found the group active overwrites a concurrent deactivation (`price_groups.go:397`). Nothing in the specification, a comment or a test says what such an update must do.
- `UpdatePriceGroup` reports success whatever `Update` returns: the `err` assigned at line 80 is the one the `data, err :=` at line 73 declares inside the `if` block. The model's `DbUpdate` marks the call done before the cache steps for that reason.

### `MerchantUsers`: `users.go`
- Clients run `InviteUser*`, `ResendInvite*`, `AcceptInvite`, `ChangeRoleFor*User` and `Delete*User` for both role types ("merchant" and "system").
- The model's state:
  - the user-role records;
  - the casbin roles per subject `<<type, user>>`;
  - the invite tokens published to the mail broker;
  - each profile's confirmed flag.
- Each handler has its own lookup action, with that handler's guard: `ResendInviteMerchantLookup` refuses a record that is no longer invited; `ResendInviteAdminLookup` has no such check (`users.go:431`); `AcceptInviteLookup` refuses an accepted record; `RoleIdLookup` serves `ChangeRoleFor*User` and `Delete*User`, whose lookups are the same in the model. `Found` is their shared not-found return.
- A handler reads a record into a local `copy` and writes the whole copy back, as `UpdateMerchantUser` does.
- When a service is in `Fallible`, any call to it may fail (`CallFails`). The handler then returns its error and skips the rest.
- `Reject` covers the early returns on data the model leaves out: merchant, company, owner, token signature or expiry, e-mail claim, profile names.

### `MerchantOnboarding`: `onboarding.go`
- Clients run seven handlers:
  - `ChangeMerchant`, which creates or edits a merchant;
  - `ChangeMerchantStatus`, `ChangeMerchantData` and `SetMerchantS3Agreement`;
  - `ChangeMerchantPaymentMethod`;
  - `CreateNotification` and `MarkNotificationAsRead`.
- The state holds:
  - the merchant collection;
  - the notification collection, in insertion order;
  - the payment-method history;
  - each client's step, request and local copy.
- A merchant is abstracted to:
  - its user and its data (partial or complete);
  - its status, agreement type and the two signatures;
  - `IsSigned` and the S3 agreement name;
  - one setting per payment method.
- Every handler works the same way:
  - it reads the document (`getMerchantBy`);
  - it computes the whole edit on its copy (`FindFor*`), including the guards;
  - it writes the whole copy back (`WriteMerchant`).

  No lock or version protects this read-modify-write.
- Step order follows the code:
  - `ChangeMerchantStatus` and `ChangeMerchantData` insert their notification before the update (`AddNotification`);
  - `ChangeMerchantPaymentMethod` inserts the history record first (`InsertHistory`).
- When `Fallible` holds, any database call may fail (`CallFails`). `ChangeMerchantData` only logs a failed notification and carries on.
- `ChangesAllowed`, `CanChangeStatusToSigning` and `NeedMarkESignAgreementAsSigned` are methods of `billing.Merchant`, which is outside this repository. They are therefore constant operators.
  - `MCMerchantOnboarding` gives them assumed definitions: Draft only; on review with complete data; both signatures on an e-sign agreement not yet Signed.

### `UserProfile`: `user_profile.go` and the profile steps of `users.go`
- Clients run `CreateOrUpdateUserProfile` ("upsert"), `ConfirmUserEmail` ("confirm"), the profile part of `AcceptInvite` ("accept") and of `DeleteMerchantUser`/`DeleteAdminUser` ("delete").
- The state holds:
  - the profile collection, each document abstracted to its user, its onboarding data (a model value), `Email.Confirmed` and `Email.IsConfirmationEmailSent`;
  - the confirmation tokens: who each was generated for (`issued`), which redis keys are still live (`live`), and which were mailed (`mailed`);
  - each client's step, request, local copy, target `_id`, generated token, and the user id `ConfirmUserEmail` read from redis (`owner`);
  - one history variable, `intended`: per `_id`, the data and confirmation state the last writers meant to set.
- Steps follow the code, one per database, redis or broker call:
  - upsert: `GetByUserId` (`ReadUpsert`), `ReplaceOne` with upsert (`WriteUpsert`), and when `NeedConfirmEmail` the redis `SET` (`SetToken`), the publish (`Send`) and the `$set` of the sent flag (`SetSent`);
  - confirm: redis `GET` (`GetToken`), `GetByUserId` and the `IsEmailVerified` check (`ReadConfirm`), `ReplaceOne` (`WriteConfirmation`);
  - accept: the profile read and name check at `users.go:507` (`ReadAccept`), the role and casbin calls as one step (`Roles`, modelled in detail by `MerchantUsers`), then `emailConfirmedSuccessfully` on the copy read at the start;
  - delete: `GetByUserId` and `emailConfirmedTruncate`.
- On a user's first call the request itself becomes the profile (`user_profile.go:52`), with the `Email.Confirmed` and `IsConfirmationEmailSent` the caller sent (`RequestFlags`). The runs send both unset, as the repository's tests do. A caller that sets them gets a profile confirmed without a link, or flagged as mailed with no mail, in one call (a listed hazard).
- A failed `GetByUserId` is not an error in `CreateOrUpdateUserProfile` or `Delete*User`: the code takes it as "no profile". The upsert then creates a new profile under a fresh `_id`.
- `setUserEmailConfirmationToken` stores the token with the configured lifetime `EmailConfirmTokenLifetime` (`EMAIL_CONFIRM_TOKEN_LIFETIME`, 86400 s by default). `ExpiresKey` says whether the key gets a TTL: redis `SET` carries an expiry only for a positive duration. Such keys are in `expiring`. The redis server may remove an expiring key at any time (`Expire(t)`). The code never deletes a token.
- `NeedConfirmEmail` and `IsEmailVerified` are methods of the generated `grpc.UserProfile`, which is not in this repository. `MCUserProfile` gives them the meaning their names and fields suggest: a mail is due while the address is neither confirmed nor mailed, and verified means confirmed.

### `Projects`: `project.go`
- Clients run `ChangeProject` ("change": create when the request has no id, otherwise update), `DeleteProject` ("delete"), `GetProject` ("show") and the repository read `Project.GetById` ("get"), which the other services use.
- The state holds:
  - the project collection, each document abstracted to its merchant, its status and its data;
  - the cacher key `project:id:<id>`, which has no TTL;
  - each client's step, request, copy and target id;
  - three history variables: every document each id has held (`stored`), the merchants whose requests wrote it (`editedBy`), and the requested `MerchantId`s `GetProject` answered with it (`shownTo`).
- `ChangeProject` takes these steps:
  - the merchant lookup (`MerchantFound`);
  - for an update, `getProjectBy` with `_id` and `merchant_id` (`FindForChange`);
  - the request validation, abstracted to `Reject`;
  - `InsertOne` or `ReplaceOne` (`WriteProject`);
  - `cacher.Set` (`CacheSet`). Its error becomes the answer even though the database write has happened.
- `DeleteProject` reads the project by `_id`, compares `MerchantId`, returns when `IsDeleted`, and writes the copy with status Deleted.
- `GetProject` builds its query from `_id`, adding `merchant_id` only when the request carries one (`ShowQuery`), then compares `MerchantId`. A request may carry the empty `MerchantId` (`NoMerchant`): then the comparison alone keeps other merchants' projects out of the answer.
- `GetById` takes the cacher `Get` to miss, as `PriceGroupCache` does. It reads with `FindOne` and fills the key; a failure of that `Set` is only logged.
- `NeedChangeStatusToDraft` and `IsDeleted` are methods of `billing.Project`, outside this repository. `MCProjects` assumes that editing the data of a project in production sends it back to Draft, and that deleted means status Deleted.

### `CostRuleResolver`: specification 3, 4.1 and 4.2 (spec-modelled)
- The state is one scope key's rule documents, by id: each is absent or a rule with its country (a code or the wildcard ""), threshold (`days_from` / `min_amount`), fee fields (a model value, copied verbatim) and `is_active` flag.
- Actions are the administrative write path of specification 3: `InsertRule` (no two active rules of one country share a threshold: `ThresholdFree`), `UpdateRule` of the fees, and `DisableRule`, the soft delete.
- The resolver is a pure operator, so the properties quantify over every request (country and query) in every reachable rule set:
  - `FetchRules` keeps the active rules (step 1);
  - `CountryGroup` and `PreferredGroup` choose the requested country's rules when it has any, otherwise the wildcard rules (steps 2-3);
  - `SortTiers` sorts by threshold with `SetToSortSeq` (step 4);
  - `SelectFrom` is the bracket selector of 4.1 as a RECURSIVE walk that keeps the last tier at or below the query.
- `SelectsGreatestThreshold` checks the walk against the declarative definition "the active rule of the preferred group with the greatest threshold at or below the query". When the preferred group has no such tier, it also checks NotFound for a country with no rules of its own.
- One case is left out on purpose. The repository test `payment_channel_cost_merchant_test.go` (lines 330-344) expects the wildcard rule for country AZ at amount 0, below all of AZ's tiers. Specification 4.2 step 4 answers NotFound there, and §8 keeps a country with rules inside its own set. The test exercises code that is not in this repository, so neither answer can be checked against code. The disagreement is a listed hazard, and the property says nothing for a country whose rules all lie above the query.

## Runs

| Run | Expect | What it shows |
|---|---|---|
| `recommended` | pass | For amounts above the first range, both handlers answer the specification's locate/map/interpolate reference (`RecommendationFollowsSpec`). Every price is rounded up onto its fraction grid (`FractionRoundsUpToGrid`), which implies the idempotence the specification asks for. |
| `recommended_panic` | violation | TLC's trace: the source currency's stored table has no ranges (the specification's `InvalidTable`), and `getPriceTableRange` indexes `Ranges[len-1]`, that is -1, at line 231. With that table left out, the same property fails at line 264: an amount at or below the first range's lower bound gives a negative ceil step and position -1, and `table.Ranges[-1]` panics. |
| `recommended_missing_table` | violation | A region without a table fails the whole request. The specification says it is skipped. |
| `price_group_cache` | pass | With a cacher whose `Get` misses, two concurrent clients and any cacher `Set` or `Delete` failing, every state stays well formed (`TypeOK`). The refinement is not a run; see `PriceGroupStore` above. |
| `price_group_cache_stale` | violation | When all writes have finished, the cache can still hold an inactive group under a region key. |
| `users` | pass | With two concurrent clients running every handler and any call failing, every role record stays well formed: accepted exactly when it carries its accepting user, even when a stale whole-record write lands after an acceptance (`TypeOK`). |
| `onboarding` | pass | With two concurrent clients and any database call failing, a stored merchant is signed exactly when it has both signatures (`SignedIffSignatures`). Every payment-method setting it carries is in the history (`PaymentMethodsRecorded`), even when handlers overwrite each other's copies. |
| `user_profile` | pass | With two concurrent clients, any call failing and tokens expiring, a profile is flagged as mailed only after a mail for its user was published (`SentHasMail`), even when stale whole-document writes cross. |
| `user_profile_lost_update` | violation | `Delete*User` reads the profile, a concurrent `CreateOrUpdateUserProfile` stores new onboarding data, and `emailConfirmedTruncate` writes the old data back (`NoLostUpdate`). |
| `projects` | pass | With two merchants, two concurrent clients and any database or cacher call failing, a project is only ever written for, or shown by `GetProject` to, its own merchant, including requests with an empty `MerchantId` (`OwnProjectsOnly`). The cacher only holds documents the collection held (`CacheHoldsStoredVersions`). |
| `cost_rules` | pass | For every rule set the write path reaches from four ids, and every country and query, the resolver answers the greatest active threshold at or below the query in the preferred group, and NotFound for a country without rules when the wildcard group has no such tier (`SelectsGreatestThreshold`). |
| `users_casbin` | violation | A casbin failure after the record write leaves an accepted user with no rights. A retry is refused as "already accepted". |

Further configurations reproduce counterexamples that are not in the run list:
- `MCRecommendedBoundary.cfg`: an amount equal to `range.to` is priced at `range.to`, where §8 of the specification says `interpolate(range, range, range.to) == range.from`. The code follows the formula of §4.4, which gives `range.to` and which §4.4 calls an intentional boundary flip; the disagreement is inside the specification, so it is not a run about the code.
- `MCPriceGroupCacheHit.cfg`: the `StoreRefinement` violation under a cacher whose by-value `Get` succeeds, the contract the repository's mock tests assume (`product_test.go:596-605`). The cacher is outside `src/`, so this is a conditional result.
- `MCMerchantUsersAcceptRace.cfg`: two concurrent `AcceptInvite`s of one invite both pass the status check, and the second overwrites the first user (`AcceptOnce`).
- `MCMerchantUsersInviteRace.cfg`: two concurrent invites of one e-mail both pass the existence check and break `UniqueInvite`. It is the same check-then-act pattern as the acceptance race.

### Bounds
- **Tables** (`MCRecommendedPrice`): widths 99/100/300, 75/75 and 40.
  - Unequal widths separate the code's position arithmetic from the reference.
  - The width of 40 produces half-cent ties.
- **Amounts**: 37, 99, 150, 420 and 700 cover inside a range, on a boundary, and past the end of every table. 0 is the low-amount case.
- **Fractions**: all five codes, plus an unsupported one.
- **Converted prices**: include exactly x.95, a half-cent tie, and x.996, which rounds to 1.00.
- **Cache** (`MCPriceGroupCache`): two clients, two ids (one stored, one free), two regions, and at most 3 calls. That is enough for a region change, a deactivation, an insert, and a read racing a write.
- **Users** (`MCMerchantUsers`): two e-mails, two users, two role names, three record ids, two clients and `MaxCalls` = 4 (3 million states with symmetry, about 2 minutes). Four calls cover:
  - an invite, then an acceptance racing a role change or a delete of the same record;
  - two acceptances of one invite;
  - an invite accepted by a user who already holds another.
  The casbin run keeps one client and five calls, which is enough for its sequential counterexample.
- **Onboarding** (`MCMerchantOnboarding`): merchant M1 of user U1 starts in any of the five statuses, with any signatures that `ChangeMerchantData` can set. The run has three merchant ids (one spare for each insert), two users, one payment method, two clients and two calls.
  - Two calls are enough for a handler to write a stale copy over another's write, and for a notification to be created and then read.
- **Profiles** (`MCUserProfile`): two clients, one user, three profile ids, two tokens, two data values (one with names), and `MaxCalls` = 4.
  - Four calls cover a create, a confirmation mail, the link opened, and a delete crossing an update.
  - One user is enough because every handler addresses the profile by user id. A second user adds no interaction.
  - The third id leaves room for the duplicate a failed read creates.
- **Projects** (`MCProjects`): two clients, two merchants, two ids, two data values, the statuses Draft, Live and Deleted, and `MaxCalls` = 4 (4 million states, under 2 minutes).
  - Four calls cover a create followed by a foreign merchant's update or delete crossing the owner's, a `GetProject` with an empty `MerchantId`, and a read racing a write. The onboarding run stays at two calls: three calls did not finish in 15 minutes.
- **Cost rules** (`MCCostRules`): four rule ids, countries AZ and US with rules written for AZ and the wildcard, thresholds 0, 5 and 30, two fee values, and queries 0, 3, 5, 10, 30 and 45 (below, on, between and above the thresholds). US has no rules, so it exercises the wildcard fallback; AZ exercises specificity. Four ids allow all three tiers of AZ next to a wildcard tier, or a disabled rule replaced by a new one at the same threshold, with updates and disables in between. Symmetry over the ids.
- The race runs use two clients and 2-3 calls, which is the shortest violating schedule.
- Symmetry is used for clients, e-mails, users, role names and ids. These are only compared for equality, and every property checked is a safety property.

### Fairness
No run assumes fairness, and no liveness property is checked. Each candidate was tried and dropped:
- "A confirmation link eventually stops working." It holds under weak fairness of redis expiry, with the default lifetime. But then it only restates that `setUserEmailConfirmationToken` gives the key a TTL. With a lifetime of 0 or less it fails, and nothing in the repository says such a configuration is refused.
- "Every call returns." Weak fairness of each in-flight handler would be justified, since a gRPC handler runs to completion and waits on nothing but its own calls. But this holds by the shape of the models, because no handler loops except over a bounded range.
- "Every failure is eventually repaired." This does not hold, and the code does not promise it. There is no retry or background repair, so a cacher or casbin failure stays until a later client call repairs it (`price_group_cache_stale`, `users_casbin`).

## Not modelled, and why
- Onboarding's read-only handlers (`GetMerchantBy`, `ListMerchants`, notifications listing, payment-method getters, `AgreementSign`). They change no state, and the payment-method getter reads through `s.merchant.GetPaymentMethod`, which is outside this repository. `AgreementSign` can answer with no status at all (`onboarding.go:913`), a defect of its response only.
- `CreatePageReview`: one insert into a collection that nothing else reads. `GetUserProfile` and `GetCommonUserProfile` are read-only, and the latter composes repositories outside `src/` (merchant, `GetMerchantUserByUserId`, `GetMerchantsForUser`). Its hazards are listed: it ignores a failed merchant read and dereferences nil (`user_profile.go:569`), and it reads the role and the casbin permissions in two calls (`user_profile.go:593`).
- The user-role read handlers (`GetMerchantUsers`, `GetAdminUsers`, `GetMerchantsForUser`, `CheckInviteToken`, `Get*UserRole`, `getUserPermissions`): read-only, over a repository outside `src/`.
- Profile uniqueness per user is not a checked property. `ReadUpsert` reaches duplicates, and a single failed `GetByUserId` is enough (`user_profile.go:49`).
- Projects: the request validation, including `validateProjectVirtualCurrency`, whose payout check passes for an empty payout currency (`project.go:478`). Also not modelled: `MultipleInsert` and the read-only handlers.
- Database errors in the cache module: a read error is reported as not-found, and write errors are not modelled. The interesting failures are the cacher's.
- Response messages and the shared package-level error values whose `Details` handlers mutate (`users.go:753`, `project.go:99`).
- Read-only handlers, BSON marshalling, URL formatting and generated mocks. The one configuration value that changes what the handlers do to state, the confirmation token lifetime, is modelled (`ExpiresKey`).
- `UniqueInvite` and `AcceptOnce` restate one guard each when handlers run one at a time, and two clients break both. The `users` run therefore checks the two-client interleavings against `TypeOK` only. The invite and accept races, and a `ChangeRoleFor*User` that writes its stale invited copy over an acceptance (`users.go:695`), are the configurations listed above.
- Profile confirmation "only with proof" is not a property: the steps that confirm are the steps that would record the proof, so it would hold by definition.

## Plan
1. Done: `PriceMath`, `RecommendedPrice`, `PriceGroupStore`/`PriceGroupCache`, `MerchantUsers`.
2. Done: `CostRuleResolver` (spec-modelled).
3. Done: `MerchantOnboarding`. Still to state as properties:
   - a stale whole-document write moving the status around the lifecycle guards;
   - two concurrent `ChangeMerchant` calls creating two merchants for one user;
   - a payment-method change recorded in the history and then lost to a stale write;
   - `ChangeMerchantData`'s notification titled after the old status (`onboarding.go:409`).
4. Done: `UserProfile`.
5. Done: `Projects`. Still open: `validateProjectVirtualCurrency` as a pure operator checked against a reference.
