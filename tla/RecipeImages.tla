---------------------------- MODULE RecipeImages ----------------------------
(***************************************************************************)
(* The photographs of one recipe (features/admin/images) and the job that  *)
(* draws one (features/meals): uploaded or drawn, reviewed, published or   *)
(* rejected, and one of them THE image.                                    *)
(*                                                                         *)
(* Every call reads the whole recipe, changes its copy and saves. A save   *)
(* sends what was changed: an image that was added is pushed, a status is  *)
(* written at the place the image had when it was read, and a removal      *)
(* sends the list that was read, less one. The collection has no version   *)
(* key, so no save is refused for what others saved meanwhile.             *)
(***************************************************************************)
EXTENDS Integers, Sequences, FiniteSets, FiniteSetsExt

CONSTANTS
    MaxImages,  \* bound: images ever made of the recipe
    Cap,        \* MAX_RECIPE_IMAGES
    Calls,      \* bound: calls at once
    MaxCalls    \* bound: calls in all

ImagesAssumption ==
    /\ MaxImages \in Nat /\ Cap \in Nat \ {0} /\ MaxCalls \in Nat /\ IsFiniteSet(Calls)

\* An id is random and new: they are numbered in the order they are given out.
Ids == 1..MaxImages
NoImage == 0

VARIABLES
    images,    \* the recipe's list of images
    primary,   \* primaryImageId
    arrived,   \* uploads whose bytes are in the bucket
    made,      \* how many ids were given out
    calls,     \* what each call is about to save, and what it has read
    begun,     \* calls so far
    crossed    \* history: a call saved over what another had done, or confirmed what was public

vars == <<images, primary, arrived, made, calls, begun, crossed>>

Status == {"pending", "review", "published", "rejected"}
Image == [id : Ids \cup {NoImage}, status : Status]
Hole == [id |-> NoImage, status |-> "null"]      \* a place Mongo filled up with null

Op == {"none", "upload", "generate", "confirm", "publish", "reject", "setPrimary", "remove"}
Idle == [op |-> "none", image |-> NoImage, seen |-> <<>>, first |-> NoImage]

TypeOK ==
    /\ images \in Seq(Image \cup {Hole}) /\ primary \in Ids \cup {NoImage}
    /\ arrived \subseteq 1..made /\ made \in 0..MaxImages /\ begun \in 0..MaxCalls /\ crossed \in BOOLEAN
    /\ \A c \in Calls :
        /\ calls[c].op \in Op /\ calls[c].image \in Ids \cup {NoImage}
        /\ calls[c].seen \in Seq(Image \cup {Hole}) /\ calls[c].first \in Ids \cup {NoImage}

Init ==
    /\ images = <<>> /\ primary = NoImage /\ arrived = {} /\ made = 0
    /\ calls = [c \in Calls |-> Idle] /\ begun = 0 /\ crossed = FALSE

----------------------------------------------------------------------------
(* Looking through a list. *)

PlacesOf(list, image) == {k \in DOMAIN list : list[k].id = image}
Published(list, except) ==
    {k \in DOMAIN list : list[k].status = "published" /\ list[k].id # except}

\* A search stops at its first hit; a null it meets before makes it throw.
Completes(list, hits) ==
    \A k \in DOMAIN list : list[k] = Hole => \E hit \in hits : hit < k

nextPublished(list, except) ==
    LET hits == Published(list, except) IN IF hits = {} THEN NoImage ELSE list[Min(hits)].id

\* An id is given out once, so that leaving out the image with an id leaves out one place.
Without(list, k) == SubSeq(list, 1, k - 1) \o SubSeq(list, k + 1, Len(list))

\* $set of "images.k.status": past the end, Mongo makes the place and fills up to it.
Put(list, k, status) ==
    [j \in 1..Max({k, Len(list)}) |->
        IF j = k THEN [id |-> IF k \in DOMAIN list THEN list[k].id ELSE NoImage, status |-> status]
        ELSE IF j \in DOMAIN list THEN list[j] ELSE Hole]

----------------------------------------------------------------------------
(* A call reads the recipe: findMeal(), and what it refuses.               *)

Begin(c, op, image) ==
    /\ calls[c].op = "none" /\ begun < MaxCalls /\ begun' = begun + 1
    /\ calls' = [calls EXCEPT ![c] = [op |-> op, image |-> image, seen |-> images,
                                      first |-> primary]]
    /\ UNCHANGED <<images, primary, arrived, crossed>>

\* requestUpload(), and the job of an image that is drawn.
BeginAdd(c, op) ==
    /\ op \in {"upload", "generate"} /\ made < MaxImages /\ Len(images) < Cap
    /\ made' = made + 1 /\ Begin(c, op, made + 1)

Reaches(image) == PlacesOf(images, image) # {} /\ Completes(images, PlacesOf(images, image))
StatusOf(image) == images[Min(PlacesOf(images, image))].status

BeginReview(c, op, image) ==
    /\ op \in {"confirm", "publish", "reject", "setPrimary", "remove"} /\ Reaches(image)
    /\ op = "publish" => StatusOf(image) # "pending"
    /\ op = "setPrimary" => StatusOf(image) = "published"
    /\ op = "reject" /\ primary = image => Completes(images, Published(images, image))
    /\ op = "remove" => Completes(images, {})
    /\ Begin(c, op, image) /\ UNCHANGED made

\* The browser's PUT to the bucket.
Arrives(image) ==
    /\ PlacesOf(images, image) # {} /\ StatusOf(image) = "pending" /\ arrived' = arrived \cup {image}
    /\ UNCHANGED <<images, primary, made, calls, begun, crossed>>

----------------------------------------------------------------------------
(* Saving what was changed.                                                *)

\* Others have left the pointer and the list that was read alone, and published nothing since.
StillTrue(c) ==
    LET seen == calls[c].seen IN
    /\ Len(seen) <= Len(images) /\ SubSeq(images, 1, Len(seen)) = seen
    /\ \A k \in Published(images, NoImage) : k <= Len(seen)
    /\ primary = calls[c].first

Ends(c) ==
    /\ calls' = [calls EXCEPT ![c] = Idle]
    /\ UNCHANGED <<arrived, made, begun>>

Add(c) ==
    /\ calls[c].op \in {"upload", "generate"} /\ Ends(c)
    /\ images' = Append(images, [id |-> calls[c].image,
                                 status |-> IF calls[c].op = "upload" THEN "pending" ELSE "review"])
    /\ UNCHANGED <<primary, crossed>>

\* The status is written where it differs from the one read, at the place it was read at.
Writes(c, status) ==
    LET seen == calls[c].seen
        k == Min(PlacesOf(seen, calls[c].image))
    IN  /\ k \in DOMAIN images => images[k] # Hole
        /\ images' = IF seen[k].status # status THEN Put(images, k, status)
                     ELSE IF k \in DOMAIN images \/ status = "review" THEN images
                     ELSE Put(images, k, "pending")

\* HEAD has found the bytes. The status that was read is not looked at.
Confirm(c) ==
    /\ calls[c].op = "confirm" /\ calls[c].image \in arrived /\ Ends(c)
    /\ Writes(c, "review")
    /\ crossed' = (crossed \/ ~StillTrue(c) \/ calls[c].image = primary)
    /\ UNCHANGED primary

Publish(c) ==
    /\ calls[c].op = "publish" /\ Ends(c)
    /\ Writes(c, "published")
    /\ primary' = IF calls[c].first = NoImage THEN calls[c].image ELSE primary
    /\ crossed' = (crossed \/ ~StillTrue(c))

RejectInPlace(c) ==     \* leaves the pointer where it is
    /\ calls[c].op = "reject" /\ Ends(c) /\ Writes(c, "rejected")
    /\ crossed' = (crossed \/ ~StillTrue(c)) /\ UNCHANGED primary
Reject(c) ==
    /\ calls[c].op = "reject" /\ Ends(c)
    /\ Writes(c, "rejected")
    /\ primary' = IF calls[c].first = calls[c].image
                  THEN nextPublished(calls[c].seen, calls[c].image) ELSE primary
    /\ crossed' = (crossed \/ ~StillTrue(c))

SetPrimary(c) ==
    /\ calls[c].op = "setPrimary" /\ Ends(c)
    /\ primary' = IF calls[c].first # calls[c].image THEN calls[c].image ELSE primary
    /\ crossed' = (crossed \/ ~StillTrue(c))
    /\ UNCHANGED images

Remove(c) ==
    /\ calls[c].op = "remove" /\ Ends(c)
    /\ images' = Without(calls[c].seen, Min(PlacesOf(calls[c].seen, calls[c].image)))
    /\ primary' = IF calls[c].first = calls[c].image
                  THEN nextPublished(calls[c].seen, calls[c].image) ELSE primary
    /\ crossed' = (crossed \/ ~StillTrue(c))

\* The bucket, the drawing or the database fails the call, or the process dies.
Dies(c) ==
    /\ calls[c].op # "none" /\ Ends(c)
    /\ UNCHANGED <<images, primary, crossed>>

Next ==
    \/ \E c \in Calls :
        \/ \E op \in Op : BeginAdd(c, op) \/ \E image \in Ids : BeginReview(c, op, image)
        \/ Add(c) \/ Confirm(c) \/ Publish(c) \/ Reject(c) \/ SetPrimary(c) \/ Remove(c) \/ Dies(c)
    \/ \E image \in Ids : Arrives(image)

Spec == Init /\ [][Next]_vars

----------------------------------------------------------------------------
(* Properties. *)

PrimaryValid ==
    IF primary = NoImage THEN Published(images, NoImage) = {}
    ELSE \E k \in PlacesOf(images, primary) : images[k].status = "published"

\* meals.model.ts, "INVARIANT, enforced in the service": the primary image is a published image
\* of the recipe, and there is one as soon as anything is published.  Nothing breaks this but a
\* call that saves over what another did since it read, and confirming the primary image again.
PrimaryStands == crossed \/ PrimaryValid

\* The same without the exceptions, which the code does not keep.
PrimaryAlwaysStands == PrimaryValid
=============================================================================
